---- MODULE Spec2Model ----
(***************************************************************************)
(* kubectl multi-context: the parallel execution and output aggregation    *)
(* engine of cmd/exec.go, cmd/logs.go and cmd/output.go.                   *)
(*                                                                         *)
(*   SpecBatch   runCommand / runLogsCommand: the bounded batch dispatcher *)
(*   SpecStream  runStreamingCommand / runStreamingLogs: the multiplexer   *)
(*   SpecFormat  formatDefaultOutput: the table aggregator                 *)
(*   SpecStructured  formatJSONOutput / formatYAMLOutput                   *)
(*   SpecOutput  formatOutput: the dispatcher over the aggregators         *)
(*   SpecVersion formatVersionOutput: the table of server versions         *)
(*   SpecSelect  getContexts: the context source and its patterns          *)
(*   SpecEntry   runCommand / runStreamingCommand from their first line    *)
(***************************************************************************)
EXTENDS Integers, Sequences, FiniteSets, TLC

\* ------------------------------------------------------------------ bounds
\* Largest number of contexts of a batch run.
MaxContexts == 3
\* Largest value of --batch-size drawn.
MaxBatchSize == 2
\* Largest number of frames the progress bar draws in a run.
MaxFrames == 2

VARIABLES
    \* ---- runCommand (exec.go:128-182), runLogsCommand (logs.go:39-72)
    contexts,     \* the context list returned by getContexts
    batchSize,    \* the package variable set by --batch-size
    showStatus,   \* stderrIsTerminal(): whether a progressBar exists
    mainpc,       \* position of the orchestrating goroutine
    launched,     \* number of loop iterations of the launch loop done
    wpc,          \* wpc[w]: position of the worker goroutine started w-th
    windex,       \* windex[w]: the worker's parameter index
    wcontext,     \* wcontext[w]: the worker's parameter context
    semaphore,    \* number of tokens in the channel semaphore
    wg,           \* the WaitGroup counter
    ret,          \* ret[w]: the worker's locals output, err
    results,      \* the shared results slice
    slotWriters,  \* slotWriters[i]: the workers that assigned results[i], in order
    invocations,  \* invocations[c]: number of kubectl processes run for context c
    proc,         \* proc[w]: status of the kubectl process of worker w
    procOut,      \* procOut[w]: what that process wrote to stdout and stderr
    firstRecorded,\* the worker that recorded its result first (0: none yet)
    started,      \* progress.started
    completed,    \* progress.completed
    aggregated,   \* the results slice as formatOutput received it (<<>>: not called)
    \* ---- progressBar (exec.go:80-126)
    animatepc,    \* position of the goroutine running progressBar.animate
    stopClosed,   \* whether the channel p.stop is closed
    animateDone,  \* whether the channel p.done is closed
    progressErr   \* what the run wrote to os.Stderr and when formatOutput ran, in order

progVars == <<animatepc, stopClosed, animateDone, progressErr>>

batchVars == <<batchSize, showStatus, mainpc, launched, wpc, windex,
               wcontext, semaphore, wg, ret, results, slotWriters, invocations,
               proc, procOut, firstRecorded, started, completed, aggregated,
               progVars>>

VARIABLES
    \* ---- runStreamingCommand (exec.go:193-284), runStreamingLogs (logs.go:74-156)
    filterHeaders, \* the parameter filterHeaders (false in runStreamingLogs)
    isTerminal,    \* isTerminal(): whether stdout is a terminal
    spc,           \* position of the orchestrating goroutine
    sidx,          \* number of iterations done of the loop it is in
    cproc,         \* cproc[c]: the process of cmds[c]
    signalled,     \* signalled[c]: the signals sent to cmds[c].Process, in order
    swg,           \* the WaitGroup counter
    doneClosed,    \* whether the channel done is closed
    sigChan,       \* number of signals buffered in sigChan (capacity 1)
    mu,            \* the worker that holds the mutex mu (<<>>: unlocked)
    headerOnce,    \* the sync.Once: "fresh", "running" (f is running) or "done"
    tpc,           \* tpc[w]: position of the streaming worker w = <<c, stream>>
    scanned,       \* scanned[w]: number of lines scanner.Scan() has returned to w
    stdout,        \* what was written to os.Stdout, in order
    stderr         \* what was written to os.Stderr, in order

streamVars == <<filterHeaders, isTerminal, spc, sidx, cproc, signalled, swg,
                doneClosed, sigChan, mu, headerOnce, tpc, scanned, stdout,
                stderr>>

VARIABLES
    \* ---- formatDefaultOutput (output.go:134-299)
    fmtpc,         \* "off", "ready" (about to be called) or "done" (returned)
    fmtResults,    \* the results slice it is given
    fmtOut,        \* its writes to os.Stdout and os.Stderr in program order
    fmtFormat,     \* formatOutput's format: "default", "json" or "yaml"
    fmtSubcommand, \* formatOutput's subcommand
    fmtErr         \* the error the aggregator, or runStreamingCommand, returned

fmtVars == <<fmtpc, fmtResults, fmtOut, fmtFormat, fmtSubcommand, fmtErr>>

VARIABLES
    \* ---- getContexts (contexts.go:21-83)
    kubeconfig,      \* what the kubeconfig file holds
    filterPatterns,  \* the --filter patterns
    excludePatterns, \* the --exclude patterns
    selpc,           \* "off", "ready" (about to be called) or "done" (returned)
    kubeContexts,    \* the names read from the kubeconfig, before any pattern is applied
    selErr           \* the error getContexts returned

selVars == <<kubeconfig, filterPatterns, excludePatterns, selpc, kubeContexts, selErr>>

vars == <<contexts, batchVars, streamVars, fmtVars, selVars>>

\* ------------------------------------------------------------ shared helpers
RECURSIVE CtxName(_)
\* The i-th context name of a run: names are unique and of different lengths.
CtxName(i) == IF i = 1 THEN "ctx" ELSE CtxName(i - 1) \o "-long"

ContextList(n) == [i \in 1..n |-> CtxName(i)]

\* The error value nil.
Nil == "nil"
\* The zero value of contextResult.
ZeroResult == [context |-> "", output |-> "", err |-> Nil]
\* No process yet (the call is not made).
None == "none"

\* ------------------------------------------------------------ runKubectlCommand
\* How the kubectl process of one invocation ends: exit status 0, a non-zero
\* exit status, or it could not be started.
Outcomes == {"exit0", "exit1", "nostart"}

\* What kubectl writes to stdout and stderr before it ends in the given way:
\* a table on success, diagnostic text on failure.
KubectlWrites(ctx, outcome) ==
    IF outcome = "exit0" THEN "table of " \o ctx ELSE "diagnostic of " \o ctx

\* The error of cmd.CombinedOutput(): nil exactly for a started process that exits 0.
CombinedErr(outcome) ==
    CASE outcome = "exit0"   -> Nil
      [] outcome = "exit1"   -> "exit status 1"
      [] outcome = "nostart" -> "executable file not found"

\* A variant that throws the captured bytes away when the command failed.
RunKubectlCommand_DropOnError(captured, outcome) ==
    [output |-> IF CombinedErr(outcome) = Nil THEN captured ELSE "",
     err |-> CombinedErr(outcome)]

\* runKubectlCommand's return value (string(output), err): the captured bytes
\* are returned whatever the error is.
RunKubectlCommand(captured, outcome) ==
    [output |-> captured, err |-> CombinedErr(outcome)]

\* The variables of a run that is not taking place.
StreamIdle ==
    /\ filterHeaders = FALSE /\ spc = "off" /\ sidx = 0
    /\ cproc = <<>> /\ signalled = <<>> /\ swg = 0 /\ doneClosed = FALSE
    /\ sigChan = 0 /\ mu = <<>> /\ headerOnce = "fresh"
    /\ tpc = <<>> /\ scanned = <<>> /\ stdout = <<>> /\ stderr = <<>>

\* A kubeconfig that is not looked at.
NoKubeconfig ==
    [path |-> TRUE, readable |-> TRUE, parses |-> TRUE, entries |-> <<>>,
     clientcmd |-> [err |-> FALSE, names |-> {}]]

SelectIdle ==
    /\ kubeconfig = NoKubeconfig /\ filterPatterns = <<>> /\ excludePatterns = <<>>
    /\ selpc = "off" /\ kubeContexts = <<>> /\ selErr = Nil

FormatIdle ==
    /\ fmtpc = "off" /\ fmtResults = <<>> /\ fmtOut = <<>>
    /\ fmtFormat = "default" /\ fmtSubcommand = "" /\ fmtErr = Nil

BatchIdle ==
    /\ batchSize = 0 /\ showStatus = FALSE /\ mainpc = "off" /\ launched = 0
    /\ wpc = <<>> /\ windex = <<>> /\ wcontext = <<>> /\ semaphore = 0 /\ wg = 0
    /\ ret = <<>> /\ results = <<>> /\ slotWriters = <<>> /\ invocations = <<>>
    /\ proc = <<>> /\ procOut = <<>> /\ firstRecorded = 0 /\ started = 0
    /\ completed = 0 /\ aggregated = <<>>
    /\ animatepc = "off" /\ stopClosed = FALSE /\ animateDone = FALSE
    /\ progressErr = <<>>

\* ------------------------------------------------------------------ runCommand
Workers == 1..Len(contexts)

\* newProgressBar, called when stderr is a terminal, starts the goroutine
\* animate; without a terminal there is no progress bar.
AnimateStart(status) == IF status THEN "select" ELSE "off"

InitBatch ==
    /\ \E n \in 1..MaxContexts : contexts = ContextList(n)
    /\ batchSize \in 0..MaxBatchSize
    /\ showStatus \in BOOLEAN
    /\ isTerminal = FALSE
    /\ FormatIdle
    /\ SelectIdle
    /\ mainpc = "launch"
    /\ launched = 0
    /\ wpc = [w \in Workers |-> "unborn"]
    /\ windex = [w \in Workers |-> 0]
    /\ wcontext = [w \in Workers |-> ""]
    /\ semaphore = 0
    /\ wg = 0
    /\ ret = [w \in Workers |-> [output |-> "", err |-> Nil]]
    /\ results = [i \in Workers |-> ZeroResult]
    /\ slotWriters = [i \in Workers |-> <<>>]
    /\ invocations = [c \in {contexts[i] : i \in Workers} |-> 0]
    /\ proc = [w \in Workers |-> None]
    /\ procOut = [w \in Workers |-> ""]
    /\ firstRecorded = 0
    /\ started = 0
    /\ completed = 0
    /\ aggregated = <<>>
    /\ animatepc = AnimateStart(showStatus)
    /\ stopClosed = FALSE
    /\ animateDone = FALSE
    /\ progressErr = <<>>
    /\ StreamIdle

\* The index the goroutine of loop iteration i receives (exec.go:171: "}(i, ctx)").
GoIndex(i) == i

\* One iteration of the launch loop: wg.Add(1) and the go statement. The loop
\* never touches the semaphore.
Launch ==
    /\ mainpc = "launch"
    /\ launched < Len(contexts)
    /\ LET i == launched + 1 IN
        /\ launched' = i
        /\ wg' = wg + 1
        /\ wpc' = [wpc EXCEPT ![i] = "acquire"]
        /\ windex' = [windex EXCEPT ![i] = GoIndex(i)]
        /\ wcontext' = [wcontext EXCEPT ![i] = contexts[i]]
    /\ UNCHANGED <<streamVars, fmtVars, selVars, progVars>>
    /\ UNCHANGED <<contexts, batchSize, showStatus, mainpc, semaphore, ret, results,
                   slotWriters, invocations, proc, procOut, firstRecorded, started, completed, aggregated>>

\* The loop is over: the main goroutine reaches wg.Wait().
LaunchDone ==
    /\ mainpc = "launch"
    /\ launched = Len(contexts)
    /\ mainpc' = "wait"
    /\ UNCHANGED <<streamVars, fmtVars, selVars, progVars>>
    /\ UNCHANGED <<contexts, batchSize, showStatus, launched, wpc, windex, wcontext,
                   semaphore, wg, ret, results, slotWriters, invocations, proc, procOut, firstRecorded,
                   started, completed, aggregated>>

\* A variant that takes a capacity of 0 for a capacity of 1.
CanAcquire_AtLeastOne == semaphore < (IF batchSize = 0 THEN 1 ELSE batchSize)

\* A variant that admits one holder more than the capacity.
CanAcquire_OffByOne == semaphore <= batchSize

\* Whether a send on the channel semaphore can proceed: the buffer has room.
\* With capacity 0 the channel is unbuffered and no goroutine ever receives
\* before it has sent, so the send blocks forever.
CanAcquire == semaphore < batchSize

\* "semaphore <- struct{}{}" followed by progress.started.Add(1).
Acquire(w) ==
    /\ wpc[w] = "acquire"
    /\ CanAcquire
    /\ semaphore' = semaphore + 1
    /\ started' = IF showStatus THEN started + 1 ELSE started
    /\ wpc' = [wpc EXCEPT ![w] = "holding"]
    /\ UNCHANGED <<streamVars, fmtVars, selVars, progVars>>
    /\ UNCHANGED <<contexts, batchSize, showStatus, mainpc, launched, windex, wcontext,
                   wg, ret, results, slotWriters, invocations, proc, procOut, firstRecorded, completed,
                   aggregated>>

\* runKubectlCommand is entered: exec.Command + cmd.CombinedOutput() either start
\* the process or fail to start it, in which case the call returns at once with
\* an empty buffer.
KubectlStart(w) ==
    /\ wpc[w] = "holding"
    /\ invocations' = [invocations EXCEPT ![wcontext[w]] = @ + 1]
    /\ \/ /\ proc' = [proc EXCEPT ![w] = "running"]
          /\ wpc' = [wpc EXCEPT ![w] = "run"]
          /\ ret' = ret
       \/ /\ proc' = [proc EXCEPT ![w] = "nostart"]
          /\ wpc' = [wpc EXCEPT ![w] = "returned"]
          /\ ret' = [ret EXCEPT ![w] = RunKubectlCommand(procOut[w], "nostart")]
    /\ UNCHANGED <<streamVars, fmtVars, selVars, progVars>>
    /\ UNCHANGED <<contexts, batchSize, showStatus, mainpc, launched, windex, wcontext,
                   semaphore, wg, results, slotWriters, procOut, firstRecorded, started,
                   completed, aggregated>>

\* The kubectl process exits and cmd.CombinedOutput() returns what it wrote.
KubectlExit(w) ==
    /\ wpc[w] = "run"
    /\ \E o \in {"exit0", "exit1"} :
          LET bytes == KubectlWrites(wcontext[w], o) IN
          /\ proc' = [proc EXCEPT ![w] = o]
          /\ procOut' = [procOut EXCEPT ![w] = bytes]
          /\ ret' = [ret EXCEPT ![w] = RunKubectlCommand(bytes, o)]
    /\ wpc' = [wpc EXCEPT ![w] = "returned"]
    /\ UNCHANGED <<streamVars, fmtVars, selVars, progVars>>
    /\ UNCHANGED <<contexts, batchSize, showStatus, mainpc, launched, windex, wcontext,
                   semaphore, wg, results, slotWriters, invocations, firstRecorded,
                   started, completed, aggregated>>

\* A variant in which the goroutines share the loop's index variable instead of
\* receiving their own copy.
SlotOf_SharedLoopVar(w) == launched

\* The slot a worker assigns: results[index].
SlotOf(w) == windex[w]

\* "results[index] = contextResult{...}" followed by progress.completed.Add(1).
Record(w) ==
    /\ wpc[w] = "returned"
    /\ results' = [results EXCEPT ![SlotOf(w)] =
                      [context |-> wcontext[w], output |-> ret[w].output, err |-> ret[w].err]]
    /\ slotWriters' = [slotWriters EXCEPT ![SlotOf(w)] = Append(@, w)]
    /\ firstRecorded' = IF firstRecorded = 0 THEN w ELSE firstRecorded
    /\ completed' = IF showStatus THEN completed + 1 ELSE completed
    /\ wpc' = [wpc EXCEPT ![w] = "recorded"]
    /\ UNCHANGED <<streamVars, fmtVars, selVars, progVars>>
    /\ UNCHANGED <<contexts, batchSize, showStatus, mainpc, launched, windex, wcontext,
                   semaphore, wg, ret, invocations, proc, procOut, started, aggregated>>

\* The deferred "<-semaphore": the second defer registered runs first.
Release(w) ==
    /\ wpc[w] = "recorded"
    /\ semaphore > 0
    /\ semaphore' = semaphore - 1
    /\ wpc' = [wpc EXCEPT ![w] = "released"]
    /\ UNCHANGED <<streamVars, fmtVars, selVars, progVars>>
    /\ UNCHANGED <<contexts, batchSize, showStatus, mainpc, launched, windex, wcontext,
                   wg, ret, results, slotWriters, invocations, proc, procOut, firstRecorded, started,
                   completed, aggregated>>

\* The deferred wg.Done(): the first defer registered runs last.
WgDone(w) ==
    /\ wpc[w] = "released"
    /\ wg' = wg - 1
    /\ wpc' = [wpc EXCEPT ![w] = "done"]
    /\ UNCHANGED <<streamVars, fmtVars, selVars, progVars>>
    /\ UNCHANGED <<contexts, batchSize, showStatus, mainpc, launched, windex, wcontext,
                   semaphore, ret, results, slotWriters, invocations, proc, procOut, firstRecorded, started,
                   completed, aggregated>>

\* A variant without the barrier.
BarrierOpen_NoWait == TRUE

\* Whether wg.Wait() can return.
BarrierOpen == wg = 0

\* wg.Wait() returns; progress.finish() is called when a progress bar exists.
WaitReturn ==
    /\ mainpc = "wait"
    /\ BarrierOpen
    /\ mainpc' = IF showStatus THEN "finish" ELSE "format"
    /\ UNCHANGED <<streamVars, fmtVars, selVars, progVars>>
    /\ UNCHANGED <<contexts, batchSize, showStatus, launched, wpc, windex, wcontext,
                   semaphore, wg, ret, results, slotWriters, invocations, proc, procOut, firstRecorded,
                   started, completed, aggregated>>

\* progressBar.finish, first statement: close(p.stop).
FinishClose ==
    /\ mainpc = "finish"
    /\ stopClosed' = TRUE
    /\ mainpc' = "finishWait"
    /\ UNCHANGED <<streamVars, fmtVars, selVars, animatepc, animateDone, progressErr>>
    /\ UNCHANGED <<contexts, batchSize, showStatus, launched, wpc, windex, wcontext,
                   semaphore, wg, ret, results, slotWriters, invocations, proc, procOut, firstRecorded,
                   started, completed, aggregated>>

\* A variant that does not wait for the goroutine.
FinishCanReturn_NoWait == TRUE

\* Whether the receive "<-p.done" can proceed: the channel is closed.
FinishCanReturn == animateDone

\* progressBar.finish, second statement: "<-p.done", then finish returns.
FinishReturn ==
    /\ mainpc = "finishWait"
    /\ FinishCanReturn
    /\ mainpc' = "format"
    /\ UNCHANGED <<streamVars, fmtVars, selVars, progVars>>
    /\ UNCHANGED <<contexts, batchSize, showStatus, launched, wpc, windex, wcontext,
                   semaphore, wg, ret, results, slotWriters, invocations, proc, procOut, firstRecorded,
                   started, completed, aggregated>>

\* The number of frames drawn so far.
Frames == Len(SelectSeq(progressErr, LAMBDA e : e = "frame"))

\* animate, the case "<-ticker.C" of its select: one frame is written to
\* os.Stderr. The case can be taken whether or not p.stop is closed.
AnimateTick ==
    /\ animatepc = "select"
    /\ Frames < MaxFrames
    /\ progressErr' = Append(progressErr, "frame")
    /\ UNCHANGED <<streamVars, fmtVars, selVars, animatepc, stopClosed, animateDone>>
    /\ UNCHANGED <<contexts, batchSize, showStatus, mainpc, launched, wpc, windex, wcontext,
                   semaphore, wg, ret, results, slotWriters, invocations, proc, procOut, firstRecorded,
                   started, completed, aggregated>>

\* animate, the case "<-p.stop": clearProgress() writes the erase sequence to
\* os.Stderr and the function returns.
AnimateStop ==
    /\ animatepc = "select"
    /\ stopClosed
    /\ progressErr' = Append(progressErr, "clear")
    /\ animatepc' = "return"
    /\ UNCHANGED <<streamVars, fmtVars, selVars, stopClosed, animateDone>>
    /\ UNCHANGED <<contexts, batchSize, showStatus, mainpc, launched, wpc, windex, wcontext,
                   semaphore, wg, ret, results, slotWriters, invocations, proc, procOut, firstRecorded,
                   started, completed, aggregated>>

\* animate's deferred calls: ticker.Stop(), then close(p.done).
AnimateReturn ==
    /\ animatepc = "return"
    /\ animateDone' = TRUE
    /\ animatepc' = "exited"
    /\ UNCHANGED <<streamVars, fmtVars, selVars, stopClosed, progressErr>>
    /\ UNCHANGED <<contexts, batchSize, showStatus, mainpc, launched, wpc, windex, wcontext,
                   semaphore, wg, ret, results, slotWriters, invocations, proc, procOut, firstRecorded,
                   started, completed, aggregated>>

Animate ==
    \/ AnimateTick
    \/ AnimateStop
    \/ AnimateReturn

\* formatOutput(results, ...) is called: the only read of the results slice.
\* The aggregator writes the table or document and the diagnostics.
CallFormatOutput ==
    /\ mainpc = "format"
    /\ aggregated' = results
    /\ progressErr' = Append(progressErr, "formatOutput")
    /\ mainpc' = "done"
    /\ UNCHANGED <<streamVars, fmtVars, selVars, animatepc, stopClosed, animateDone>>
    /\ UNCHANGED <<contexts, batchSize, showStatus, launched, wpc, windex, wcontext,
                   semaphore, wg, ret, results, slotWriters, invocations, proc, procOut, firstRecorded,
                   started, completed>>

Worker(w) ==
    \/ Acquire(w)
    \/ KubectlStart(w)
    \/ KubectlExit(w)
    \/ Record(w)
    \/ Release(w)
    \/ WgDone(w)

MainBatch ==
    \/ Launch
    \/ LaunchDone
    \/ WaitReturn
    \/ FinishClose
    \/ FinishReturn
    \/ CallFormatOutput

NextBatch ==
    \/ MainBatch
    \/ \E w \in Workers : Worker(w)
    \/ Animate

SpecBatch == InitBatch /\ [][NextBatch]_vars

\* The Go scheduler runs every runnable goroutine, and every kubectl process
\* that was started exits. Once p.stop is closed its case of animate's select
\* stays ready, and a select among ready cases does not pass one over for ever.
SpecBatchFair ==
    /\ SpecBatch
    /\ WF_vars(MainBatch)
    /\ \A w \in 1..MaxContexts : WF_vars(w \in Workers /\ Worker(w))
    /\ WF_vars(AnimateStop \/ AnimateReturn)

\* ------------------------------------------------------- claims on runCommand
\* The workers that hold an admission slot: sent to semaphore, not yet received.
Holders == {w \in Workers : wpc[w] \in {"holding", "run", "returned", "recorded"}}

\* The workers whose result assignment has been executed.
Recorded == {w \in Workers : wpc[w] \in {"recorded", "released", "done"}}

\* The contextResult the kubectl run of worker w stands for.
ExpectedResult(i) ==
    [context |-> contexts[i],
     output  |-> procOut[i],
     err     |-> IF proc[i] = "exit0" THEN Nil
                 ELSE IF proc[i] = "exit1" THEN "exit status 1"
                 ELSE "executable file not found"]

\* C1: once wg.Wait has returned, results[i] holds contexts[i] with the output
\* and error of the kubectl run for contexts[i], for every completion order;
\* every slot is assigned at most once, only by the worker launched for its
\* index, and formatOutput reads the slice only after the barrier.
C1_ResultsIndexStable ==
    /\ \A i \in Workers :
          /\ Len(slotWriters[i]) <= 1
          /\ \A k \in 1..Len(slotWriters[i]) : slotWriters[i][k] = i
    /\ mainpc \in {"format", "done"} =>
          \A i \in Workers :
              /\ slotWriters[i] = <<i>>
              /\ proc[i] \in Outcomes
              /\ results[i] = ExpectedResult(i)
    /\ aggregated # <<>> =>
          /\ mainpc = "done"
          /\ aggregated = results
          /\ \A i \in Workers : aggregated[i] = ExpectedResult(i)

\* C1 witness: the aggregator has run on a full batch whose last-launched
\* worker was the first to record, and whose outcomes differ.
C1_Witness ==
    /\ aggregated # <<>>
    /\ Len(contexts) = MaxContexts
    /\ firstRecorded = Len(contexts)
    /\ aggregated[1].err = Nil
    /\ aggregated[Len(contexts)].err # Nil

\* C2: never more than batchSize workers hold an admission slot, a kubectl
\* process runs only while its worker holds one, and a slot is given back
\* only after the worker's result is in results[index].
C2_AdmissionBound ==
    /\ Cardinality(Holders) = semaphore
    /\ semaphore <= batchSize
    /\ \A w \in Workers : proc[w] = "running" => w \in Holders
    /\ \A w \in Workers :
          wpc[w] \in {"released", "done"} =>
              /\ slotWriters[windex[w]] # <<>>
              /\ results[windex[w]].context = wcontext[w]

\* C2 witness: the gate is full with fewer slots than contexts, every holder's
\* process runs, and another worker waits at the gate.
C2_Witness ==
    /\ batchSize >= 1
    /\ batchSize < Len(contexts)
    /\ semaphore = batchSize
    /\ \A w \in Holders : proc[w] = "running"
    /\ \E w \in Workers : wpc[w] = "acquire"
    /\ \E w \in Workers : wpc[w] = "done"

\* C3: with batchSize >= 1, and every kubectl run returning, runCommand passes
\* its barrier and calls the aggregator; it never does so before all workers
\* have recorded; and the launch loop ends whatever the gate admits (also
\* with batchSize 0).
C3_BarrierThenAggregate ==
    /\ [](mainpc \in {"format", "done"} => Recorded = Workers)
    /\ [](aggregated # <<>> => Recorded = Workers)
    /\ <>(mainpc # "launch" /\ launched = Len(contexts))
    /\ (batchSize >= 1) ~> (aggregated # <<>>)

\* C3 witness: the aggregator was called in a run whose gate had fewer slots
\* than contexts.
C3_Witness ==
    /\ aggregated # <<>>
    /\ batchSize >= 1
    /\ batchSize < Len(contexts)
    /\ Len(contexts) = MaxContexts

\* C4: a run that cannot be started or exits non-zero is recorded in its own
\* slot with a non-nil error and the output captured; whichever runs fail,
\* every context is invoked exactly once and gets its own result.
C4_FailuresStayLocal ==
    /\ \A i \in Workers : invocations[contexts[i]] <= 1
    /\ \A w \in Recorded :
          /\ results[w].context = contexts[w]
          /\ results[w].output = procOut[w]
          /\ (proc[w] \in {"exit1", "nostart"}) <=> (results[w].err # Nil)
          /\ proc[w] = "nostart" => results[w].output = ""
          /\ proc[w] = "exit1" => results[w].output = "diagnostic of " \o contexts[w]
          /\ proc[w] = "exit0" => results[w].output = "table of " \o contexts[w]
    /\ aggregated # <<>> =>
          \A i \in Workers :
              /\ invocations[contexts[i]] = 1
              /\ i \in Recorded
              /\ aggregated[i].context = contexts[i]

\* C4 witness: the aggregator received a batch in which one run could not be
\* started, one exited non-zero and one succeeded.
C4_Witness ==
    /\ aggregated # <<>>
    /\ \E i, j, k \in Workers :
          /\ proc[i] = "nostart" /\ aggregated[i].err # Nil
          /\ proc[j] = "exit1" /\ aggregated[j].err # Nil /\ aggregated[j].output # ""
          /\ proc[k] = "exit0" /\ aggregated[k].err = Nil

\* ========================================================= runStreamingCommand
\* Largest number of contexts of a streaming run.
MaxStreamContexts == 2
\* Largest number of lines a child writes to its stdout.
MaxLines == 2
\* Largest number of lines a child writes to its stderr.
MaxErrLines == 1

Children == 1..Len(contexts)
Streams == {"out", "err"}
\* One streaming goroutine per child and output stream.
StreamWorkers == Children \X Streams

LineLimit(stream) == IF stream = "out" THEN MaxLines ELSE MaxErrLines

RECURSIVE MaxLen(_)
\* The loop of exec.go:203-208: the longest context name.
MaxLen(names) ==
    IF names = <<>> THEN 0
    ELSE LET rest == MaxLen(Tail(names)) IN
         IF Len(Head(names)) > rest THEN Len(Head(names)) ELSE rest

\* maxWidth, widened to the header label in header-filter mode.
MaxWidth(names, filter) ==
    IF filter /\ MaxLen(names) < Len("CONTEXT") THEN Len("CONTEXT") ELSE MaxLen(names)

\* colorizeContext: the name wrapped in a colour and the reset code on a
\* terminal, the bare name otherwise.
ColorizeContext(tty, ctx) ==
    IF tty THEN "<color>" \o ctx \o "<reset>" ELSE ctx

\* A variant that keeps handing out the first line.
LineText_Stale(w, n) == <<w[1], w[2], 1>>

\* The line scanner.Text() returns to worker w after its n-th successful Scan.
LineText(w, n) == <<w[1], w[2], n>>

\* fmt.Fprintf(dest, "%s%s  %s\n", coloredCtx, padding, line): one write of one
\* complete line.
FormatLine(coloredCtx, padding, line) ==
    [kind |-> "line", label |-> coloredCtx, pad |-> padding, text |-> line]

\* fmt.Fprintf(dest, "%s  %s\n", contextHeader, line) with
\* contextHeader = "CONTEXT" + padding to maxWidth.
FormatHeader(width, line) ==
    [kind |-> "header", label |-> "CONTEXT", pad |-> width - Len("CONTEXT"),
     text |-> line]

\* fmt.Fprintf(os.Stderr, "Context %s: failed to ...: %v\n", ctx, err)
FormatLaunchError(ctx, what) ==
    [kind |-> "diag", label |-> ctx, pad |-> 0, text |-> <<0, what, 0>>]

\* The worker's parameters coloredCtx and padding (exec.go:246-247).
ColoredCtx(w) == ColorizeContext(isTerminal, contexts[w[1]])
Padding(w) == MaxWidth(contexts, filterHeaders) - Len(contexts[w[1]])

\* Whether worker w runs streamLinesFilterHeader rather than streamLines.
IsFilterWorker(w) == filterHeaders /\ w[2] = "out"

InitStream ==
    /\ \E n \in 1..MaxStreamContexts : contexts = ContextList(n)
    /\ BatchIdle
    /\ FormatIdle
    /\ SelectIdle
    /\ filterHeaders \in BOOLEAN
    /\ isTerminal \in BOOLEAN
    /\ spc = "launch"
    /\ sidx = 0
    /\ cproc = [c \in Children |-> "uncreated"]
    /\ signalled = [c \in Children |-> <<>>]
    /\ swg = 0
    /\ doneClosed = FALSE
    /\ sigChan = 0
    /\ mu = <<>>
    /\ headerOnce = "fresh"
    /\ tpc = [w \in StreamWorkers |-> "unborn"]
    /\ scanned = [w \in StreamWorkers |-> 0]
    /\ stdout = <<>>
    /\ stderr = <<>>

\* How one iteration of the launch loop can go.
LaunchOutcomes == {"stdout pipe", "stderr pipe", "start", "ok"}

\* One iteration of the launch loop (exec.go:222-259): the command is appended
\* to cmds; a failure to create a pipe or to start is reported on stderr and the
\* loop continues; otherwise the two streaming goroutines are started.
StreamLaunch ==
    /\ spc = "launch"
    /\ sidx < Len(contexts)
    /\ LET c == sidx + 1 IN
       \E o \in LaunchOutcomes :
          /\ sidx' = c
          /\ IF o = "ok"
             THEN /\ cproc' = [cproc EXCEPT ![c] = "running"]
                  /\ swg' = swg + 2
                  /\ tpc' = [tpc EXCEPT ![<<c, "out">>] = "scan", ![<<c, "err">>] = "scan"]
                  /\ stderr' = stderr
             ELSE /\ cproc' = [cproc EXCEPT ![c] = "nil"]
                  /\ stderr' = Append(stderr, FormatLaunchError(contexts[c], o))
                  /\ UNCHANGED <<swg, tpc>>
    /\ UNCHANGED <<filterHeaders, isTerminal, spc, signalled, doneClosed, sigChan, mu, headerOnce, scanned, stdout>>
    /\ UNCHANGED <<contexts, batchVars, fmtVars, selVars>>

\* The loop is over: the goroutine that waits for wg is started and the main
\* goroutine reaches the select.
StreamLaunchDone ==
    /\ spc = "launch"
    /\ sidx = Len(contexts)
    /\ spc' = "select"
    /\ sidx' = 0
    /\ UNCHANGED <<filterHeaders, isTerminal, cproc, signalled, swg, doneClosed, sigChan,
                   mu, headerOnce, tpc, scanned, stdout, stderr>>
    /\ UNCHANGED <<contexts, batchVars, fmtVars, selVars>>

\* The goroutine of exec.go:262-265: wg.Wait() returns and done is closed.
CloseDone ==
    /\ spc \notin {"off", "failed", "launch"}
    /\ ~doneClosed
    /\ swg = 0
    /\ doneClosed' = TRUE
    /\ UNCHANGED <<filterHeaders, isTerminal, spc, sidx, cproc, signalled, swg, sigChan,
                   mu, headerOnce, tpc, scanned, stdout, stderr>>
    /\ UNCHANGED <<contexts, batchVars, fmtVars, selVars>>

\* SIGINT or SIGTERM is delivered to the program while signal.Notify is in
\* force: it is buffered in sigChan, or dropped when the buffer is full.
Interrupt ==
    /\ spc \notin {"off", "failed", "returned"}
    /\ sigChan' = 1
    /\ UNCHANGED <<filterHeaders, isTerminal, spc, sidx, cproc, signalled, swg,
                   doneClosed, mu, headerOnce, tpc, scanned, stdout, stderr>>
    /\ UNCHANGED <<contexts, batchVars, fmtVars, selVars>>

\* select: case <-sigChan.
SelectSignal ==
    /\ spc = "select"
    /\ sigChan = 1
    /\ sigChan' = 0
    /\ spc' = "term"
    /\ UNCHANGED <<filterHeaders, isTerminal, sidx, cproc, signalled, swg, doneClosed,
                   mu, headerOnce, tpc, scanned, stdout, stderr>>
    /\ UNCHANGED <<contexts, batchVars, fmtVars, selVars>>

\* select: case <-done.
SelectDone ==
    /\ spc = "select"
    /\ doneClosed
    /\ spc' = "waitDone"
    /\ UNCHANGED <<filterHeaders, isTerminal, sidx, cproc, signalled, swg, doneClosed,
                   sigChan, mu, headerOnce, tpc, scanned, stdout, stderr>>
    /\ UNCHANGED <<contexts, batchVars, fmtVars, selVars>>

\* The signal the interrupt branch sends to a child.
TermSignal == "SIGTERM"

\* Whether cmd.Process != nil: the command was started.
HasProcess(c) == cproc[c] \in {"running", "exited", "reaped"}

\* One iteration of the loop of exec.go:269-273.
SendTerm ==
    /\ spc = "term"
    /\ LET c == sidx + 1 IN
          /\ signalled' = IF HasProcess(c)
                          THEN [signalled EXCEPT ![c] = Append(@, TermSignal)]
                          ELSE signalled
          /\ IF c = Len(contexts)
             THEN spc' = "waitSig" /\ sidx' = 0
             ELSE spc' = spc /\ sidx' = c
    /\ UNCHANGED <<filterHeaders, isTerminal, cproc, swg, doneClosed, sigChan, mu,
                   headerOnce, tpc, scanned, stdout, stderr>>
    /\ UNCHANGED <<contexts, batchVars, fmtVars, selVars>>

\* A variant that does not wait for the process.
WaitCanReturn_NoWait(c) == TRUE

\* Whether cmd.Wait() can return: the process has exited, or the command was
\* never started (Wait then fails at once).
WaitCanReturn(c) == cproc[c] \in {"exited", "nil"}

\* One iteration of the loops of exec.go:274-276 and 278-280: cmd.Wait()
\* returns; after the last one the function returns nil (exec.go:283).
WaitCmd ==
    /\ spc \in {"waitSig", "waitDone"}
    /\ LET c == sidx + 1 IN
          /\ WaitCanReturn(c)
          /\ cproc' = IF cproc[c] = "exited" THEN [cproc EXCEPT ![c] = "reaped"] ELSE cproc
          /\ IF c = Len(contexts)
             THEN spc' = "returned" /\ sidx' = 0
             ELSE spc' = spc /\ sidx' = c
          /\ fmtErr' = IF c = Len(contexts) THEN Nil ELSE fmtErr
    /\ UNCHANGED <<filterHeaders, isTerminal, signalled, swg, doneClosed, sigChan, mu, headerOnce, tpc, scanned, stdout, stderr>>
    /\ UNCHANGED <<contexts, batchVars, selVars, fmtpc, fmtResults, fmtOut, fmtFormat, fmtSubcommand>>

\* A child process exits, by itself or on a signal.
ChildExit(c) ==
    /\ cproc[c] = "running"
    /\ cproc' = [cproc EXCEPT ![c] = "exited"]
    /\ UNCHANGED <<filterHeaders, isTerminal, spc, sidx, signalled, swg, doneClosed,
                   sigChan, mu, headerOnce, tpc, scanned, stdout, stderr>>
    /\ UNCHANGED <<contexts, batchVars, fmtVars, selVars>>

\* A variant that writes every line, the first one included.
AfterScan_NoFilter(w, n) == "lock"

\* Where a worker goes with the line it has just scanned: the first line of a
\* header-filtering worker goes to headerOnce.Do, every other line is written.
AfterScan(w, n) == IF IsFilterWorker(w) /\ n = 1 THEN "once" ELSE "lock"

\* scanner.Scan() returns true: the child's next line.
ScanLine(w) ==
    /\ tpc[w] = "scan"
    /\ scanned[w] < LineLimit(w[2])
    /\ scanned' = [scanned EXCEPT ![w] = @ + 1]
    /\ tpc' = [tpc EXCEPT ![w] = AfterScan(w, scanned[w] + 1)]
    /\ UNCHANGED <<filterHeaders, isTerminal, spc, sidx, cproc, signalled, swg,
                   doneClosed, sigChan, mu, headerOnce, stdout, stderr>>
    /\ UNCHANGED <<contexts, batchVars, fmtVars, selVars>>

\* scanner.Scan() returns false (the child closed the stream or exited, or
\* cmd.Wait closed the pipe); the loop ends and the deferred wg.Done() runs.
ScanEnd(w) ==
    /\ tpc[w] = "scan"
    /\ tpc' = [tpc EXCEPT ![w] = "done"]
    /\ swg' = swg - 1
    /\ UNCHANGED <<filterHeaders, isTerminal, spc, sidx, cproc, signalled, doneClosed,
                   sigChan, mu, headerOnce, scanned, stdout, stderr>>
    /\ UNCHANGED <<contexts, batchVars, fmtVars, selVars>>

\* A variant without mutual exclusion.
MutexFree_NoLock == TRUE

\* Whether mu.Lock() can return.
MutexFree == mu = <<>>

\* mu.Lock(), in the loop body or inside the function given to headerOnce.Do.
Lock(w) ==
    /\ tpc[w] \in {"lock", "hlock"}
    /\ MutexFree
    /\ mu' = w
    /\ tpc' = [tpc EXCEPT ![w] = IF tpc[w] = "lock" THEN "write" ELSE "hwrite"]
    /\ UNCHANGED <<filterHeaders, isTerminal, spc, sidx, cproc, signalled, swg,
                   doneClosed, sigChan, headerOnce, scanned, stdout, stderr>>
    /\ UNCHANGED <<contexts, batchVars, fmtVars, selVars>>

\* What a worker writes for the line it holds.
WorkerLine(w) ==
    IF tpc[w] = "hwrite"
    THEN FormatHeader(MaxWidth(contexts, filterHeaders), LineText(w, scanned[w]))
    ELSE FormatLine(ColoredCtx(w), Padding(w), LineText(w, scanned[w]))

\* The fmt.Fprintf of a worker: to os.Stdout for a stdout worker, to os.Stderr
\* for a stderr worker.
Write(w) ==
    /\ tpc[w] \in {"write", "hwrite"}
    /\ IF w[2] = "out"
       THEN stdout' = Append(stdout, WorkerLine(w)) /\ stderr' = stderr
       ELSE stderr' = Append(stderr, WorkerLine(w)) /\ stdout' = stdout
    /\ tpc' = [tpc EXCEPT ![w] = IF tpc[w] = "write" THEN "unlock" ELSE "hunlock"]
    /\ UNCHANGED <<filterHeaders, isTerminal, spc, sidx, cproc, signalled, swg,
                   doneClosed, sigChan, mu, headerOnce, scanned>>
    /\ UNCHANGED <<contexts, batchVars, fmtVars, selVars>>

\* mu.Unlock(); inside headerOnce.Do the function then returns and the Once is
\* marked done.
Unlock(w) ==
    /\ tpc[w] \in {"unlock", "hunlock"}
    /\ mu' = <<>>
    /\ headerOnce' = IF tpc[w] = "hunlock" THEN "done" ELSE headerOnce
    /\ tpc' = [tpc EXCEPT ![w] = "scan"]
    /\ UNCHANGED <<filterHeaders, isTerminal, spc, sidx, cproc, signalled, swg,
                   doneClosed, sigChan, scanned, stdout, stderr>>
    /\ UNCHANGED <<contexts, batchVars, fmtVars, selVars>>

\* A variant in which a caller that arrives while f runs returns at once.
OnceDo_NoWait(w) ==
    /\ tpc[w] = "once"
    /\ IF headerOnce = "fresh"
       THEN headerOnce' = "running" /\ tpc' = [tpc EXCEPT ![w] = "hlock"]
       ELSE headerOnce' = headerOnce /\ tpc' = [tpc EXCEPT ![w] = "scan"]
    /\ UNCHANGED <<filterHeaders, isTerminal, spc, sidx, cproc, signalled, swg,
                   doneClosed, sigChan, mu, scanned, stdout, stderr>>
    /\ UNCHANGED <<contexts, batchVars, fmtVars, selVars>>

\* headerOnce.Do(f): the first caller runs f; a caller that arrives while f
\* runs blocks until f has returned; a later caller returns at once.
OnceDo(w) ==
    /\ tpc[w] = "once"
    /\ headerOnce # "running"
    /\ IF headerOnce = "fresh"
       THEN headerOnce' = "running" /\ tpc' = [tpc EXCEPT ![w] = "hlock"]
       ELSE headerOnce' = headerOnce /\ tpc' = [tpc EXCEPT ![w] = "scan"]
    /\ UNCHANGED <<filterHeaders, isTerminal, spc, sidx, cproc, signalled, swg,
                   doneClosed, sigChan, mu, scanned, stdout, stderr>>
    /\ UNCHANGED <<contexts, batchVars, fmtVars, selVars>>

StreamWorker(w) ==
    \/ ScanLine(w)
    \/ ScanEnd(w)
    \/ OnceDo(w)
    \/ Lock(w)
    \/ Write(w)
    \/ Unlock(w)

MainStream ==
    \/ StreamLaunch
    \/ StreamLaunchDone
    \/ SelectSignal
    \/ SelectDone
    \/ SendTerm
    \/ WaitCmd

NextStream ==
    \/ MainStream
    \/ CloseDone
    \/ Interrupt
    \/ \E c \in Children : ChildExit(c)
    \/ \E w \in StreamWorkers : StreamWorker(w)

SpecStream == InitStream /\ [][NextStream]_vars

\* The Go scheduler runs every runnable goroutine. Nothing forces a child to
\* exit or an interrupt to arrive.
SpecStreamFair ==
    /\ SpecStream
    /\ WF_vars(MainStream)
    /\ WF_vars(CloseDone)
    /\ \A c \in 1..MaxStreamContexts :
          /\ WF_vars(<<c, "out">> \in StreamWorkers /\ StreamWorker(<<c, "out">>))
          /\ WF_vars(<<c, "err">> \in StreamWorkers /\ StreamWorker(<<c, "err">>))

\* ---------------------------------------------- claims on runStreamingCommand
\* The workers between mu.Lock() and mu.Unlock().
InCritical == {w \in StreamWorkers : tpc[w] \in {"write", "hwrite", "unlock", "hunlock"}}

\* The label width of the run.
LabelWidth ==
    LET longest == CHOOSE n \in {Len(contexts[c]) : c \in Children} :
                       \A c \in Children : Len(contexts[c]) <= n
    IN  IF filterHeaders /\ longest < 7 THEN 7 ELSE longest

\* Entry e is one whole line of child c's given stream: c's label, the padding
\* to the label width, and a line the worker of that stream has scanned.
WholeLineOf(e, c, stream) ==
    /\ e.kind = "line"
    /\ e.label = (IF isTerminal THEN "<color>" \o contexts[c] \o "<reset>" ELSE contexts[c])
    /\ e.pad = LabelWidth - Len(contexts[c])
    /\ e.text[1] = c /\ e.text[2] = stream
    /\ e.text[3] \in 1..scanned[<<c, stream>>]

\* Entry e is the unified header made of child c's first stdout line.
HeaderOf(e, c) ==
    /\ e.kind = "header"
    /\ e.label = "CONTEXT"
    /\ e.pad = LabelWidth - 7
    /\ e.text = <<c, "out", 1>>
    /\ scanned[<<c, "out">>] >= 1

\* C5: every line of a worker is emitted as one unit while that worker holds
\* the shared mutex: at most one worker is between Lock and Unlock, it is the
\* holder, and each sink holds only whole lines, each of exactly one context.
C5_WholeLinesUnderMutex ==
    /\ Cardinality(InCritical) <= 1
    /\ \A w \in InCritical : mu = w
    /\ mu # <<>> => mu \in InCritical
    /\ \A k \in 1..Len(stdout) :
          Cardinality({c \in Children :
              WholeLineOf(stdout[k], c, "out") \/ HeaderOf(stdout[k], c)}) = 1
    /\ \A k \in 1..Len(stderr) :
          \/ stderr[k].kind = "diag"
          \/ Cardinality({c \in Children : WholeLineOf(stderr[k], c, "err")}) = 1

\* C5 witness: a stdout worker and a stderr worker of different contexts meet
\* at the mutex, one writing and one waiting, after each sink received a line.
C5_Witness ==
    \E w1, w2 \in StreamWorkers :
        /\ w1[1] # w2[1]
        /\ w1[2] # w2[2]
        /\ tpc[w1] = "write"
        /\ tpc[w2] = "lock"
        /\ stdout # <<>>
        /\ \E k \in 1..Len(stderr) : stderr[k].kind = "line"

\* The lines of worker w in its sink, in the order they were written.
LinesOf(w) ==
    LET sink == IF w[2] = "out" THEN stdout ELSE stderr
        Mine(e) == e.kind = "line" /\ e.text[1] = w[1] /\ e.text[2] = w[2]
        mine == SelectSeq(sink, Mine)
    IN  [k \in 1..Len(mine) |-> mine[k].text[3]]

\* The number of scanned lines a worker has finished writing.
Handled(w) == IF tpc[w] \in {"lock", "write"} THEN scanned[w] - 1 ELSE scanned[w]

OutWorkers == {w \in StreamWorkers : w[2] = "out"}

RECURSIVE DataLinesDue(_)
\* The sum over the given workers of their scanned lines without the first.
DataLinesDue(ws) ==
    IF ws = {} THEN 0
    ELSE LET w == CHOOSE x \in ws : TRUE IN
         (IF scanned[w] > 1 THEN scanned[w] - 1 ELSE 0) + DataLinesDue(ws \ {w})

Headers == SelectSeq(stdout, LAMBDA e : e.kind = "header")
DataLines == SelectSeq(stdout, LAMBDA e : e.kind = "line")

\* Every stdout worker that was started has left its loop.
OutWorkersFinished ==
    /\ spc # "launch"
    /\ \A w \in OutWorkers : tpc[w] \in {"unborn", "done"}

\* C7: with header filtering, stdout never holds more than one unified header
\* line; once all stdout workers have finished it holds exactly one if some
\* context produced a line and none otherwise, and the number of labelled
\* data lines is the sum of each context's lines without its first.
C7_OneHeaderAllDataLines ==
    /\ ~filterHeaders => Headers = <<>>
    /\ filterHeaders =>
          /\ Len(Headers) <= 1
          /\ \A k \in 1..Len(Headers) : \E c \in Children : HeaderOf(Headers[k], c)
          /\ OutWorkersFinished =>
                /\ Len(Headers) = IF \E w \in OutWorkers : scanned[w] >= 1 THEN 1 ELSE 0
                /\ Len(DataLines) = DataLinesDue(OutWorkers)
                /\ \A k \in 1..Len(DataLines) : DataLines[k].text[3] >= 2

\* C7 witness: two contexts raced with two lines each; the header is the
\* second context's first line and two data lines follow.
C7_Witness ==
    /\ filterHeaders
    /\ OutWorkersFinished
    /\ Len(contexts) >= 2
    /\ \A w \in OutWorkers : scanned[w] = 2
    /\ Len(Headers) = 1
    /\ Headers[1].text = <<2, "out", 1>>
    /\ Len(DataLines) = 2

\* The children that were started.
Started == {c \in Children : HasProcess(c)}

\* C8: only SIGTERM is ever sent; when the interrupt branch has run its signal
\* loop every started child has been sent one; and the function returns, on
\* either branch, only when Wait has returned for every started child, so
\* that none is still running.
C8_TerminateThenReap ==
    /\ \A c \in Children : \A k \in 1..Len(signalled[c]) : signalled[c][k] = "SIGTERM"
    /\ \A c \in Children : signalled[c] # <<>> => c \in Started
    /\ spc = "waitSig" => \A c \in Started : signalled[c] = <<"SIGTERM">>
    /\ spc = "returned" =>
          /\ \A c \in Children : cproc[c] \in {"reaped", "nil"}
          /\ (\E c \in Children : signalled[c] # <<>>) =>
                 \A c \in Started : signalled[c] = <<"SIGTERM">>

\* C8 witness: the function returned on the interrupt branch with two started
\* children, both signalled and reaped.
C8_Witness ==
    /\ spc = "returned"
    /\ Len(contexts) >= 2
    /\ \A c \in Children : cproc[c] = "reaped" /\ signalled[c] = <<"SIGTERM">>

\* C9: an interrupt delivered at any moment before the function returns leads
\* to a termination request to every child running at that moment (or, at
\* the least, that child does not keep running unsignalled).
C9_InterruptAlwaysAnswered ==
    \A c \in 1..MaxStreamContexts :
        [](c \in Children /\ sigChan = 1 /\ cproc[c] = "running"
              => <>(c \in Children /\ (signalled[c] # <<>> \/ cproc[c] # "running")))

\* ========================================================= formatDefaultOutput
\* Largest number of results given to formatDefaultOutput.
MaxFmtResults == 2

\* A captured output is a sequence of lines and a line is a sequence of cells,
\* the texts that runs of two or more blanks separate. An empty cell stands for
\* a value kubectl left out under a column; a line of no cells, or of empty
\* cells only, is a blank line. The fifth output has a row with fewer and a row
\* with more values than its header; the last one is a row of api-resources
\* without a short name.
FmtOutputs ==
    { <<>>,
      << <<"v1">> >>,
      << <<"NAME", "STATUS">>, <<"pod1", "Running">> >>,
      << <<"NAME", "STATUS">>, <<>>, <<"pod-long-name", "", "2d">>, <<>> >>,
      << <<"NAME", "STATUS">>, <<"p">>, <<"pod2-longer-name", "Pending", "extra">> >>,
      << <<"NAME", "SHORTNAMES", "KIND">>, <<"pods", "", "Pod">> >> }

\* The subcommands whose output is a list of lines without a column header.
HeaderlessSubcommands == {"logs", "api-versions"}

\* The captured outputs of such a subcommand.
HeaderlessOutputs ==
    { <<>>,
      << <<"v1">> >>,
      << <<"apps/v1">>, <<"v1">> >> }

\* The subcommands drawn for the default format, and the outputs of each.
FmtSubcommands == {"get"} \cup HeaderlessSubcommands
OutputsOf(subcommand) ==
    IF subcommand \in HeaderlessSubcommands THEN HeaderlessOutputs ELSE FmtOutputs

\* The errors a result can carry.
FmtErrs == {Nil, "connection failed"}

SetMax(S) == CHOOSE x \in S : \A y \in S : y <= x
SetMin(S) == CHOOSE x \in S : \A y \in S : x <= y

\* strings.TrimSpace(line) == "".
IsBlank(line) == \A i \in 1..Len(line) : line[i] = ""

\* strings.TrimSpace(result.output) followed by strings.Split(output, "\n"):
\* the lines from the first non-blank one to the last non-blank one; none when
\* the output is all white space.
TrimSpaceLines(output) ==
    LET nb == {i \in 1..Len(output) : ~IsBlank(output[i])} IN
    IF nb = {} THEN <<>> ELSE SubSeq(output, SetMin(nb), SetMax(nb))

NonEmptyCell(c) == c # ""

\* parseColumns: split on runs of blanks and keep the non-empty parts.
ParseColumns(line) == SelectSeq(line, NonEmptyCell)

\* A variant that drops errored results in the first pass.
Kept_SkipErrored(r) == r.err = Nil /\ TrimSpaceLines(r.output) # <<>>

\* Whether the first pass appends an entry for the result.
Kept(r) == r.err # Nil \/ TrimSpaceLines(r.output) # <<>>

\* The outputData the first pass builds for a result it keeps.
OutputData(r) ==
    IF r.err # Nil
    THEN [context |-> r.context, err |-> r.err, errMsg |-> r.output,
          lines |-> <<>>, columns |-> <<>>]
    ELSE LET ls == TrimSpaceLines(r.output) IN
         [context |-> r.context, err |-> Nil, errMsg |-> <<>>, lines |-> ls,
          columns |-> [i \in 1..Len(ls) |->
                          IF IsBlank(ls[i]) THEN <<>> ELSE ParseColumns(ls[i])]]

\* allOutputs after the first pass.
AllOutputs(rs) ==
    LET kept == SelectSeq(rs, Kept) IN
    [i \in 1..Len(kept) |-> OutputData(kept[i])]

\* maxContextWidth after the first pass.
MaxContextWidth(rs) ==
    SetMax({Len("CONTEXT")} \cup {Len(rs[i].context) : i \in {k \in 1..Len(rs) : Kept(rs[k])}})

\* The entries the header search accepts.
HeaderCandidates(all) ==
    {i \in 1..Len(all) : /\ all[i].err = Nil
                         /\ Len(all[i].columns) > 1
                         /\ Len(all[i].columns[1]) > 0}

HeaderFound(all) == HeaderCandidates(all) # {}

HeaderColumns(all) ==
    IF HeaderFound(all) THEN all[SetMin(HeaderCandidates(all))].columns[1] ELSE <<>>

\* A variant that skips the first line of single-line outputs too.
StartIdx_AlwaysSkip(all, data) == IF HeaderFound(all) THEN 2 ELSE 1

\* startIdx, counting lines from 1.
StartIdx(all, data) == IF HeaderFound(all) /\ Len(data.columns) > 1 THEN 2 ELSE 1

\* The lines the width pass and the print loop visit: (entry, line) pairs.
DataRows(all) ==
    UNION {{<<d, i>> : i \in StartIdx(all, all[d])..Len(all[d].columns)} :
              d \in {k \in 1..Len(all) : all[k].err = Nil}}

\* A variant that measures only the rows with as many values as the header.
MaxColumnWidths_SkipRagged(all, j) ==
    LET hdr == HeaderColumns(all)
        fromHeader == IF j <= Len(hdr) THEN {Len(hdr[j])} ELSE {}
        fromRows == {Len(all[p[1]].columns[p[2]][j]) :
                        p \in {q \in DataRows(all) :
                                  /\ j <= Len(all[q[1]].columns[q[2]])
                                  /\ Len(all[q[1]].columns[q[2]]) = Len(hdr)}}
    IN SetMax({0} \cup fromHeader \cup fromRows)

\* A variant that measures the header only.
MaxColumnWidths_HeaderOnly(all, j) ==
    LET hdr == HeaderColumns(all) IN
    IF j <= Len(hdr) THEN Len(hdr[j]) ELSE 0

\* maxColumnWidths[j] after the second pass; 0 stands for an absent key.
MaxColumnWidths(all, j) ==
    LET hdr == HeaderColumns(all)
        fromHeader == IF j <= Len(hdr) THEN {Len(hdr[j])} ELSE {}
        fromRows == {Len(all[p[1]].columns[p[2]][j]) :
                        p \in {q \in DataRows(all) : j <= Len(all[q[1]].columns[q[2]])}}
    IN SetMax({0} \cup fromHeader \cup fromRows)

\* formatColumns: every value padded to its column's width and the values
\* joined by four blanks; strings.TrimRight removes the last value's padding.
FormatColumns(all, columns) ==
    [j \in 1..Len(columns) |->
        LET w == MaxColumnWidths(all, j)
            width == IF w = 0 THEN Len(columns[j]) ELSE w
        IN [text |-> columns[j], width |-> width,
            pad |-> IF j = Len(columns) THEN 0 ELSE width - Len(columns[j])]]

\* fmt.Printf("%s%s  %s\n", "CONTEXT", contextPadding, formattedHeader).
HeaderEvent(rs, all) ==
    [kind |-> "header", stream |-> "stdout", label |-> "CONTEXT",
     pad |-> MaxContextWidth(rs) - Len("CONTEXT"),
     cells |-> FormatColumns(all, HeaderColumns(all)), text |-> <<>>]

\* fmt.Fprintf(os.Stderr, "Context %s: Error: %v\n", coloredContext, data.err).
ErrorEvent(tty, data) ==
    [kind |-> "error", stream |-> "stderr", label |-> ColorizeContext(tty, data.context),
     pad |-> 0, cells |-> <<>>, text |-> data.err]

\* fmt.Fprintf(os.Stderr, "Output: %s\n", data.errMsg).
ErrMsgEvent(tty, data) ==
    [kind |-> "errMsg", stream |-> "stderr", label |-> ColorizeContext(tty, data.context),
     pad |-> 0, cells |-> <<>>, text |-> data.errMsg]

\* fmt.Printf("%s%s  %s\n", coloredContext, contextPadding, formattedLine).
RowEvent(tty, rs, all, data, i) ==
    [kind |-> "row", stream |-> "stdout", label |-> ColorizeContext(tty, data.context),
     pad |-> MaxContextWidth(rs) - Len(data.context),
     cells |-> FormatColumns(all, data.columns[i]), text |-> <<>>]

\* What one iteration of the print loop writes for an entry.
EntryEvents(tty, rs, all, data) ==
    IF data.err # Nil
    THEN <<ErrorEvent(tty, data)>>
         \o (IF data.errMsg # <<>> THEN <<ErrMsgEvent(tty, data)>> ELSE <<>>)
    ELSE LET start == StartIdx(all, data)
             idx == [k \in 1..(Len(data.columns) - start + 1) |-> start + k - 1]
             Printed(i) == Len(data.columns[i]) > 0
             shown == SelectSeq(idx, Printed)
         IN [k \in 1..Len(shown) |-> RowEvent(tty, rs, all, data, shown[k])]

RECURSIVE PrintLoop(_, _, _, _)
\* The print loop over allOutputs from entry k on.
PrintLoop(tty, rs, all, k) ==
    IF k > Len(all) THEN <<>>
    ELSE EntryEvents(tty, rs, all, all[k]) \o PrintLoop(tty, rs, all, k + 1)

\* Everything formatDefaultOutput writes, in program order.
FormatDefaultOutputWrites(tty, rs) ==
    LET all == AllOutputs(rs) IN
    (IF HeaderFound(all) THEN <<HeaderEvent(rs, all)>> ELSE <<>>)
    \o PrintLoop(tty, rs, all, 1)

\* A variant that reports the first per-context error to the caller.
ReturnOf_FirstError(rs, rendered) ==
    IF rendered # Nil THEN rendered
    ELSE IF \E i \in 1..Len(rs) : rs[i].err # Nil
         THEN rs[CHOOSE i \in 1..Len(rs) : rs[i].err # Nil].err
         ELSE Nil

\* The value an aggregator returns once the loop over results is over: the
\* error of the rendering ("return nil" at output.go:298 and 412, the marshal
\* error or nil at 517-523 and 593-599). A result's err is written to stderr
\* and never returned.
ReturnOf(rs, rendered) == rendered

InitFormat ==
    /\ fmtSubcommand \in FmtSubcommands
    /\ \E n \in 0..MaxFmtResults :
          /\ contexts = ContextList(n)
          /\ fmtResults \in [1..n -> [context : {CtxName(i) : i \in 1..n},
                                      output : OutputsOf(fmtSubcommand), err : FmtErrs]]
          /\ \A i \in 1..n : fmtResults[i].context = contexts[i]
    /\ isTerminal \in BOOLEAN
    /\ BatchIdle
    /\ StreamIdle
    /\ SelectIdle
    /\ fmtpc = "ready"
    /\ fmtOut = <<>>
    /\ fmtFormat = "default"
    /\ fmtErr = Nil

\* formatDefaultOutput(results).
FormatDefaultOutput ==
    /\ fmtpc = "ready"
    /\ fmtOut' = FormatDefaultOutputWrites(isTerminal, fmtResults)
    /\ fmtpc' = "done"
    /\ fmtErr' = ReturnOf(fmtResults, Nil)
    /\ UNCHANGED <<contexts, batchVars, streamVars, selVars, fmtResults, fmtFormat, fmtSubcommand>>

NextFormat == FormatDefaultOutput

SpecFormat == InitFormat /\ [][NextFormat]_vars

\* ------------------------------------------------------------------ claim C10
\* C10: in the combined order of the writes of formatDefaultOutput, the
\* "Context <name>: Error: ..." diagnostic of every errored context comes
\* before every data row, wherever the errored context is in the input.
C10_ErrorsBeforeRows ==
    fmtpc = "done" =>
        \A i, j \in 1..Len(fmtOut) :
            fmtOut[i].kind = "error" /\ fmtOut[j].kind = "row" => i < j

\* ===================================================== formatJSONOutput, formatYAMLOutput
\* A key that a map does not have.
Absent == "<absent>"

\* The value under "metadata": no such key, a value that is not a map, or a
\* map with or without a "context" key.
MetaAbsent == [kind |-> "absent", context |-> Absent]
MetaScalar == [kind |-> "scalar", context |-> Absent]
MetaObject(c) == [kind |-> "object", context |-> c]

\* The value under "items": no such key, a value that is not an array, or an
\* array.
NoItems == [kind |-> "absent", elems |-> <<>>]
ItemsScalar == [kind |-> "scalar", elems |-> <<>>]
ItemsArray(elems) == [kind |-> "array", elems |-> elems]

\* A decoded value: a map[string]interface{} with the keys the aggregators
\* look at (name stands for all the others), a value that is not a map, or
\* the nil map.
Object(name, metadata, context, items) ==
    [kind |-> "object", name |-> name, metadata |-> metadata, context |-> context,
     error |-> Absent, items |-> items]
Scalar(name) ==
    [kind |-> "scalar", name |-> name, metadata |-> MetaAbsent, context |-> Absent,
     error |-> Absent, items |-> NoItems]
NilMap ==
    [kind |-> "nil", name |-> "", metadata |-> MetaAbsent, context |-> Absent,
     error |-> Absent, items |-> NoItems]

\* A captured output: no bytes at all, the document null, text that is neither
\* JSON nor YAML for a map, or the encoding of a map.
EmptyText == [text |-> "empty", doc |-> NilMap]
NullText == [text |-> "null", doc |-> NilMap]
InvalidText == [text |-> "invalid", doc |-> NilMap]
Encoded(doc) == [text |-> "object", doc |-> doc]

\* The captured outputs drawn.
StructOutputs ==
    { EmptyText, NullText, InvalidText,
      Encoded(Object("list", MetaAbsent, Absent,
                     ItemsArray(<<Object("pod1", MetaObject("stale"), Absent, NoItems),
                                  Object("pod2", MetaAbsent, Absent, NoItems)>>))),
      Encoded(Object("list", MetaAbsent, Absent,
                     ItemsArray(<<Scalar("7"),
                                  Object("pod3", MetaScalar, Absent, NoItems)>>))),
      Encoded(Object("list", MetaAbsent, Absent, ItemsArray(<<>>))),
      Encoded(Object("node1", MetaObject(Absent), Absent, NoItems)),
      Encoded(Object("status", MetaAbsent, "stale", NoItems)),
      Encoded(Object("odd", MetaAbsent, Absent, ItemsScalar)),
      Encoded(Object("list", MetaAbsent, Absent, ItemsArray(<<Scalar("8")>>))) }

\* json.Unmarshal / yaml.Unmarshal into a map[string]interface{}: the error,
\* and the map afterwards. JSON rejects empty input; YAML accepts it, and both
\* decode null (YAML: also the empty document) to the nil map without an error.
Unmarshal(format, output) ==
    [err |-> IF output.text = "invalid" \/ (output.text = "empty" /\ format = "json")
             THEN "cannot unmarshal" ELSE Nil,
     data |-> IF output.text = "object" THEN output.doc ELSE NilMap]

\* fmt.Fprintf(os.Stderr, "Context %s: Error: %v\n", result.context, result.err).
StructErrorEvent(r) ==
    [kind |-> "error", stream |-> "stderr", label |-> r.context, pad |-> 0,
     cells |-> <<>>, text |-> r.err]

\* fmt.Fprintf(os.Stderr, "Context %s: Failed to parse JSON: %v\n", result.context, err).
ParseErrorEvent(r, err) ==
    [kind |-> "parseError", stream |-> "stderr", label |-> r.context, pad |-> 0,
     cells |-> <<>>, text |-> err]

\* How the marshaller writes the value of allItems, which is the nil slice
\* until the first append: encoding/json writes a nil slice as null, yaml.v3
\* writes it as the empty sequence; a slice with elements is written as a list.
MarshalItems(format, allItems) ==
    IF allItems = <<>> THEN (IF format = "json" THEN "null" ELSE "[]") ELSE "list"

\* fmt.Println(string(jsonData)) / fmt.Print(string(yamlData)).
DocumentEvent(format, allItems) ==
    [kind |-> "document", stream |-> "stdout", apiVersion |-> "v1", docKind |-> "List",
     items |-> allItems, itemsText |-> MarshalItems(format, allItems)]

\* A variant that leaves the error message out.
TagError_NoMessage(data, r) == [data EXCEPT !.context = r.context]

\* errorData["context"] = result.context; errorData["error"] = result.err.Error().
TagError(data, r) == [data EXCEPT !.context = r.context, !.error = r.err]

\* A variant that keeps a "context" key the element's metadata already has.
TagItem_KeepExisting(item, ctx) ==
    IF item.metadata.kind = "object"
    THEN (IF item.metadata.context = Absent
          THEN [item EXCEPT !.metadata.context = ctx] ELSE item)
    ELSE [item EXCEPT !.metadata = MetaObject(ctx)]

\* The metadata / context assignment made to an element of an items array.
TagItem(item, ctx) ==
    IF item.metadata.kind = "object"
    THEN [item EXCEPT !.metadata.context = ctx]
    ELSE [item EXCEPT !.metadata = MetaObject(ctx)]

\* The metadata / context assignment made to a top-level object.
TagRoot(data, ctx) ==
    IF data.metadata.kind = "object"
    THEN [data EXCEPT !.metadata.context = ctx]
    ELSE [data EXCEPT !.context = ctx]

IsMap(v) == v.kind = "object"

\* The loop over an items array: the elements that are maps, tagged.
TagItems(elems, ctx) ==
    LET maps == SelectSeq(elems, IsMap) IN
    [k \in 1..Len(maps) |-> TagItem(maps[k], ctx)]

\* One iteration of the loop over results, from the state acc = (writes so
\* far, allItems, whether the goroutine has panicked). An assignment to an
\* entry of the nil map panics.
StructStep(format, r, acc) ==
    LET u == Unmarshal(format, r.output) IN
    IF r.err # Nil
    THEN LET out == Append(acc.out, StructErrorEvent(r)) IN
         IF r.output.text = "empty" \/ u.err # Nil
         THEN [acc EXCEPT !.out = out]
         ELSE IF u.data.kind = "nil"
              THEN [acc EXCEPT !.out = out, !.panic = TRUE]
              ELSE [acc EXCEPT !.out = out, !.items = Append(@, TagError(u.data, r))]
    ELSE IF u.err # Nil
         THEN [acc EXCEPT !.out = Append(@, ParseErrorEvent(r, u.err))]
         ELSE IF u.data.items.kind = "array"
              THEN [acc EXCEPT !.items = @ \o TagItems(u.data.items.elems, r.context)]
              ELSE IF u.data.items.kind = "scalar"
                   THEN acc
                   ELSE IF u.data.kind = "nil"
                        THEN [acc EXCEPT !.panic = TRUE]
                        ELSE [acc EXCEPT !.items = Append(@, TagRoot(u.data, r.context))]

RECURSIVE StructLoop(_, _, _, _)
\* The loop over results from index k on; it stops at a panic.
StructLoop(format, rs, k, acc) ==
    IF k > Len(rs) \/ acc.panic THEN acc
    ELSE StructLoop(format, rs, k + 1, StructStep(format, rs[k], acc))

\* json.MarshalIndent / yaml.Marshal of the document: it fails only on a value
\* that has no encoding, and every element of allItems is a decoded map.
MarshalErr(items) ==
    IF \A k \in 1..Len(items) : IsMap(items[k]) THEN Nil ELSE "unsupported value"

InitStructured ==
    /\ \E n \in 0..MaxFmtResults :
          /\ contexts = ContextList(n)
          /\ fmtResults \in [1..n -> [context : {CtxName(i) : i \in 1..n},
                                      output : StructOutputs, err : FmtErrs]]
          /\ \A i \in 1..n : fmtResults[i].context = contexts[i]
    /\ isTerminal = FALSE
    /\ BatchIdle
    /\ StreamIdle
    /\ SelectIdle
    /\ fmtpc = "ready"
    /\ fmtOut = <<>>
    /\ fmtFormat \in {"json", "yaml"}
    /\ fmtSubcommand = "get"
    /\ fmtErr = Nil

\* formatJSONOutput / formatYAMLOutput: the loop, then the document and the
\* return of the marshal error. A panic ends the program before the document.
FormatStructured(format) ==
    /\ fmtpc = "ready"
    /\ fmtFormat = format
    /\ LET end == StructLoop(format, fmtResults, 1,
                             [out |-> <<>>, items |-> <<>>, panic |-> FALSE]) IN
          /\ fmtOut' = IF end.panic THEN end.out
                       ELSE Append(end.out, DocumentEvent(format, end.items))
          /\ fmtpc' = IF end.panic THEN "panicked" ELSE "done"
          /\ fmtErr' = IF end.panic THEN Nil
                       ELSE ReturnOf(fmtResults, MarshalErr(end.items))
    /\ UNCHANGED <<contexts, batchVars, streamVars, selVars, fmtResults, fmtFormat, fmtSubcommand>>

FormatJSONOutput == FormatStructured("json")
FormatYAMLOutput == FormatStructured("yaml")

NextStructured == FormatJSONOutput \/ FormatYAMLOutput

SpecStructured == InitStructured /\ [][NextStructured]_vars

\* ---------------------------------------------------------------- formatOutput
InitOutput == InitFormat \/ InitStructured

\* formatOutput: the switch on the format.
FormatOutput ==
    \/ fmtFormat = "json" /\ FormatJSONOutput
    \/ fmtFormat = "yaml" /\ FormatYAMLOutput
    \/ fmtFormat \notin {"json", "yaml"} /\ FormatDefaultOutput

SpecOutput == InitOutput /\ [][FormatOutput]_vars

\* ------------------------------------------------------------------ claim C11
\* The results that carry an error.
Errored == {i \in 1..Len(fmtResults) : fmtResults[i].err # Nil}

\* The "Context <name>: Error: ..." lines written for result i.
ErrorLinesOf(i) ==
    LET Mine(e) == /\ e.kind = "error" /\ e.stream = "stderr"
                   /\ e.label = ColorizeContext(isTerminal, contexts[i])
                   /\ e.text = fmtResults[i].err
    IN SelectSeq(fmtOut, Mine)

\* The table rows printed for result i.
RowsOf(i) ==
    LET Mine(e) == e.kind = "row" /\ e.label = ColorizeContext(isTerminal, contexts[i])
    IN SelectSeq(fmtOut, Mine)

\* The items of the merged document, when one was printed.
DocItems ==
    LET docs == SelectSeq(fmtOut, LAMBDA e : e.kind = "document") IN
    IF docs = <<>> THEN <<>> ELSE docs[1].items

\* The items of the merged document that carry the name of result i's context.
ItemsOf(i) ==
    LET Mine(o) == o.context = contexts[i] \/ o.metadata.context = contexts[i]
    IN SelectSeq(DocItems, Mine)

\* Whether the captured output of result i is the encoding of a map.
ParsesAsObject(i) == fmtResults[i].output.text = "object"

Contribution(i, onlyMaps) ==
    LET r == fmtResults[i]
        u == Unmarshal(fmtFormat, r.output)
    IN IF r.err # Nil \/ u.err # Nil \/ u.data.kind # "object" THEN <<>>
       ELSE IF u.data.items.kind = "array"
            THEN LET es == IF onlyMaps THEN SelectSeq(u.data.items.elems, IsMap)
                           ELSE u.data.items.elems
                 IN [k \in 1..Len(es) |-> [elem |-> es[k], ctx |-> r.context, listElem |-> TRUE]]
            ELSE IF u.data.items.kind = "absent"
                 THEN <<[elem |-> u.data, ctx |-> r.context, listElem |-> FALSE]>>
                 ELSE <<>>

RECURSIVE Contributions(_, _)
\* The contributions of results i.. in input order.
Contributions(i, onlyMaps) ==
    IF i > Len(fmtResults) THEN <<>>
    ELSE Contribution(i, onlyMaps) \o Contributions(i + 1, onlyMaps)

\* Record o is the given element carrying its context's name where the claim
\* puts it, and no other context's name anywhere.
CarriesSource(o, src) ==
    /\ o.kind = src.elem.kind /\ o.name = src.elem.name
    /\ IF src.listElem \/ src.elem.metadata.kind = "object"
       THEN o.metadata.kind = "object" /\ o.metadata.context = src.ctx
       ELSE o.context = src.ctx
    /\ \A j \in 1..Len(contexts) :
          contexts[j] # src.ctx => o.context # contexts[j] /\ o.metadata.context # contexts[j]

\* The items of the document that are not the payload of a failed context.
PlainItems == SelectSeq(DocItems, LAMBDA o : o.error = Absent)

\* Exactly one document, of the List shape, is printed, as the last write.
OneDocument ==
    /\ Len(SelectSeq(fmtOut, LAMBDA e : e.kind = "document")) = 1
    /\ fmtOut[Len(fmtOut)].kind = "document"
    /\ fmtOut[Len(fmtOut)].apiVersion = "v1" /\ fmtOut[Len(fmtOut)].docKind = "List"

MergedFrom(srcs) ==
    /\ Len(PlainItems) = Len(srcs)
    /\ \A k \in 1..Len(srcs) : CarriesSource(PlainItems[k], srcs[k])

Due(j) ==
    IF fmtResults[j].err # Nil
    THEN (IF ParsesAsObject(j) THEN 1 ELSE 0)
    ELSE Len(Contribution(j, TRUE))

RECURSIVE Offset(_)
\* The number of items due from the results before result i.
Offset(i) == IF i <= 1 THEN 0 ELSE Offset(i - 1) + Due(i - 1)

Unparsed ==
    {i \in 1..Len(fmtResults) :
        /\ fmtResults[i].err = Nil
        /\ fmtResults[i].output.text \in {"empty", "invalid"}}

\* The "Context <name>: Failed to parse ..." lines written for result i.
ParseErrorLinesOf(i) ==
    SelectSeq(fmtOut, LAMBDA e : /\ e.kind = "parseError" /\ e.stream = "stderr"
                                 /\ e.label = contexts[i])

\* C14: once the JSON or YAML aggregator has run on results of which a
\* successful one does not parse, it has returned without an error, that
\* context has added no item and has exactly one line on stderr, and the
\* other contexts are merged as usual.
C14_UnparsedSkippedNotFatal ==
    fmtpc # "ready" /\ fmtFormat \in {"json", "yaml"} /\ Unparsed # {} =>
        /\ fmtpc = "done" /\ fmtErr = Nil
        /\ OneDocument
        /\ Len(DocItems) = Offset(Len(fmtResults) + 1)
        /\ \A i \in Unparsed : ItemsOf(i) = <<>> /\ Len(ParseErrorLinesOf(i)) = 1

\* ------------------------------------------------------------------ claim C15
\* The lines of the table: the header and the data rows, in print order.
TableLines == SelectSeq(fmtOut, LAMBDA e : e.kind \in {"header", "row"})

\* The width the label of a table line takes on the screen: colour codes
\* take none.
LabelLen(e) ==
    IF e.kind = "header" THEN Len(e.label)
    ELSE LET i == CHOOSE k \in 1..Len(contexts) :
                      e.label = ColorizeContext(isTerminal, contexts[k])
         IN Len(contexts[i])

\* The largest length of a j-th value in the table.
WidestAt(j) ==
    SetMax({Len(TableLines[k].cells[j].text) :
               k \in {n \in 1..Len(TableLines) : j <= Len(TableLines[n].cells)}})

RECURSIVE ColumnOffset(_, _)
\* The offset in the printed line at which the j-th value starts: label,
\* padding and two blanks, then each earlier value with its padding and the
\* four blanks that join the columns.
ColumnOffset(e, j) ==
    IF j = 1 THEN LabelLen(e) + e.pad + 2
    ELSE ColumnOffset(e, j - 1) + Len(e.cells[j - 1].text) + e.cells[j - 1].pad + 4

\* The results that failed or whose output has a non-blank line.
Retained ==
    {i \in 1..Len(fmtResults) :
        \/ fmtResults[i].err # Nil
        \/ \E n \in 1..Len(fmtResults[i].output) : ~IsBlank(fmtResults[i].output[n])}

LinesToPrint(i) ==
    LET nonBlank == SelectSeq(fmtResults[i].output, LAMBDA l : ~IsBlank(l)) IN
    [k \in 1..Len(nonBlank) |-> SelectSeq(nonBlank[k], NonEmptyCell)]

\* The values of the rows printed for result i.
RowTextsOf(i) ==
    [k \in 1..Len(RowsOf(i)) |->
        [j \in 1..Len(RowsOf(i)[k].cells) |-> RowsOf(i)[k].cells[j].text]]

\* C16: formatOutput in the default format, for a subcommand whose output has
\* no column header, prints no CONTEXT header row and prints every line of
\* every successful context, with the context's label padded to the longest
\* context name.
C16_HeaderlessLinesAllPrinted ==
    fmtpc = "done" /\ fmtFormat = "default" /\ fmtSubcommand \in HeaderlessSubcommands =>
        /\ \A a \in 1..Len(fmtOut) : fmtOut[a].kind # "header"
        /\ \A i \in 1..Len(fmtResults) :
              fmtResults[i].err = Nil =>
                  /\ RowTextsOf(i) = LinesToPrint(i)
                  /\ \A k \in 1..Len(RowsOf(i)) :
                        Len(contexts[i]) + RowsOf(i)[k].pad = MaxLen(contexts)

\* ------------------------------------------------------------------ claim C28
\* The merged documents printed.
Documents == SelectSeq(fmtOut, LAMBDA e : e.kind = "document")

\* C28: the items field of the merged JSON or YAML document is always written
\* as a list; when no context contributes a record it is the empty list and
\* not null.
C28_ItemsAlwaysAList ==
    fmtpc = "done" /\ fmtFormat \in {"json", "yaml"} =>
        \A d \in 1..Len(Documents) :
            Documents[d].itemsText = IF Documents[d].items = <<>> THEN "[]" ELSE "list"

\* The same for YAML alone, where it holds.
C28_YamlItemsAlwaysAList ==
    fmtpc = "done" /\ fmtFormat = "yaml" =>
        \A d \in 1..Len(Documents) :
            Documents[d].itemsText = IF Documents[d].items = <<>> THEN "[]" ELSE "list"

\* A JSON run in which the only context failed without output.
C28_NoRecordJSON ==
    /\ fmtpc = "done" /\ fmtFormat = "json"
    /\ Len(fmtResults) = 1 /\ fmtResults[1].err # Nil
    /\ Len(Documents) = 1 /\ Documents[1].items = <<>>

\* ------------------------------------------------------------------ claim C29
\* What was written to stderr about the context of result i.
StderrOf(i) ==
    SelectSeq(fmtOut, LAMBDA e : e.stream = "stderr" /\ e.label = contexts[i])

\* Whether the output of result i decodes to a map whose "items" is an array
\* without elements.
GenuinelyEmpty(i) ==
    LET u == Unmarshal(fmtFormat, fmtResults[i].output) IN
    u.err = Nil /\ u.data.items.kind = "array" /\ u.data.items.elems = <<>>

\* C29: in JSON or YAML mode every successful context that contributes no
\* record to the merged document is reported on stderr, unless its items
\* array is empty; a context whose "items" is not an array, or holds no
\* object, is not dropped silently.
C29_NoSilentDrop ==
    fmtpc = "done" /\ fmtFormat \in {"json", "yaml"} =>
        \A i \in 1..Len(fmtResults) :
            fmtResults[i].err = Nil /\ ItemsOf(i) = <<>> /\ ~GenuinelyEmpty(i) =>
                StderrOf(i) # <<>>

\* The same for the contexts whose output does not decode: they are reported.
C29_UndecodableReported ==
    fmtpc = "done" /\ fmtFormat \in {"json", "yaml"} =>
        \A i \in 1..Len(fmtResults) :
            fmtResults[i].err = Nil
                /\ Unmarshal(fmtFormat, fmtResults[i].output).err # Nil =>
                    StderrOf(i) # <<>>

\* A successful context whose "items" is not an array left neither a record
\* nor a line on stderr.
C29_ScalarItemsDropped ==
    /\ fmtpc = "done" /\ fmtFormat = "json" /\ Len(fmtResults) = 1
    /\ fmtResults[1].err = Nil
    /\ Unmarshal(fmtFormat, fmtResults[1].output).data.items.kind = "scalar"
    /\ ItemsOf(1) = <<>> /\ StderrOf(1) = <<>>

\* A successful context whose items array holds no object left neither a
\* record nor a line on stderr.
C29_NonObjectItemsDropped ==
    /\ fmtpc = "done" /\ fmtFormat = "yaml" /\ Len(fmtResults) = 1
    /\ fmtResults[1].err = Nil
    /\ Unmarshal(fmtFormat, fmtResults[1].output).data.items.elems = <<Scalar("8")>>
    /\ ItemsOf(1) = <<>> /\ StderrOf(1) = <<>>

\* ------------------------------------------------------------------ claim C21
\* The header rows printed.
HeaderRows == SelectSeq(fmtOut, LAMBDA e : e.kind = "header")

\* The result a printed row belongs to.
RowOwner(e) ==
    CHOOSE i \in 1..Len(contexts) : e.label = ColorizeContext(isTerminal, contexts[i])

\* The rows come grouped by context, the contexts in input order.
RowsGrouped ==
    \A a, b \in 1..Len(fmtOut) :
        a < b /\ fmtOut[a].kind = "row" /\ fmtOut[b].kind = "row" =>
            RowOwner(fmtOut[a]) <= RowOwner(fmtOut[b])

\* The lines of result i without the first one.
AfterFirst(i) == IF LinesToPrint(i) = <<>> THEN <<>> ELSE Tail(LinesToPrint(i))

\* C21 as stated: when a header row is printed it is printed once, the first
\* line of every successful context is left out of the data rows, and every
\* other non-blank line of every successful context is printed once, grouped
\* by context in input order.
C21_FirstLineAlwaysOmitted ==
    fmtpc = "done" /\ fmtFormat = "default" /\ HeaderRows # <<>> =>
        /\ Len(HeaderRows) = 1
        /\ \A i \in 1..Len(fmtResults) :
              fmtResults[i].err = Nil => RowTextsOf(i) = AfterFirst(i)
        /\ RowsGrouped

\* C21 as the code has it: the first line is left out only for a context
\* whose output has more than one line; the single line of a one-line output
\* is printed as a data row.
C21_FirstLineOmittedWhenSeveral ==
    fmtpc = "done" /\ fmtFormat = "default" /\ HeaderRows # <<>> =>
        /\ Len(HeaderRows) = 1
        /\ fmtOut[1].kind = "header"
        /\ \A i \in 1..Len(fmtResults) :
              fmtResults[i].err = Nil =>
                  RowTextsOf(i) = IF Len(LinesToPrint(i)) > 1 THEN AfterFirst(i)
                                  ELSE LinesToPrint(i)
        /\ RowsGrouped

\* The first context gives the header and a data line after a blank one; the
\* only line of the second context is printed as a data row.
C21_Witness ==
    /\ fmtpc = "done" /\ fmtFormat = "default" /\ Len(HeaderRows) = 1
    /\ Len(fmtResults) = 2
    /\ fmtResults[1].err = Nil /\ Len(LinesToPrint(1)) = 2 /\ Len(fmtResults[1].output) = 4
    /\ fmtResults[2].err = Nil /\ Len(LinesToPrint(2)) = 1
    /\ Len(RowsOf(1)) = 1 /\ RowTextsOf(2) = LinesToPrint(2)

\* ------------------------------------------------------------------ claim C27
\* The lines of result i that become data rows when a header is printed, with
\* their empty cells: the non-blank lines but the first, or the only one.
SourceRowsOf(i) ==
    LET nonBlank == SelectSeq(fmtResults[i].output, LAMBDA l : ~IsBlank(l)) IN
    IF Len(nonBlank) > 1 THEN Tail(nonBlank) ELSE nonBlank

\* C27: in a data row with an empty cell under some header column, every
\* value of the row is rendered under the header column it had in the source
\* output: the value of the s-th source column is the s-th value of the
\* printed row.
C27_ValuesKeepTheirColumn ==
    fmtpc = "done" /\ fmtFormat = "default" /\ HeaderRows # <<>> =>
        \A i \in 1..Len(fmtResults) :
            fmtResults[i].err = Nil =>
                \A k \in 1..Len(RowsOf(i)) :
                    k <= Len(SourceRowsOf(i)) =>
                        LET src == SourceRowsOf(i)[k]
                            row == RowsOf(i)[k].cells
                        IN \A c \in 1..Len(src) :
                              c <= Len(HeaderRows[1].cells) /\ src[c] # "" =>
                                  c <= Len(row) /\ row[c].text = src[c]

\* The row of api-resources without a short name was printed.
C27_EmptyCellRowPrinted ==
    /\ fmtpc = "done" /\ fmtFormat = "default" /\ Len(HeaderRows) = 1
    /\ Len(fmtResults) = 1 /\ fmtResults[1].err = Nil
    /\ Len(HeaderRows[1].cells) = 3
    /\ SourceRowsOf(1) = << <<"pods", "", "Pod">> >>
    /\ Len(RowsOf(1)) = 1

\* ------------------------------------------------------------------ claim C22
\* C22: formatDefaultOutput computes no negative padding: in the header and in
\* every data row, whatever the number of values of the row, each value is
\* laid out in a width of at least its length, and the context column is at
\* least as wide as the context name of every printed row.
C22_NoNegativePadding ==
    fmtpc = "done" /\ fmtFormat = "default" =>
        \A a \in 1..Len(TableLines) :
            LET e == TableLines[a] IN
            /\ e.pad >= 0
            /\ LabelLen(e) + e.pad >= Len("CONTEXT")
            /\ \A b \in 1..Len(TableLines) : LabelLen(e) + e.pad >= LabelLen(TableLines[b])
            /\ \A j \in 1..Len(e.cells) :
                  /\ e.cells[j].width >= Len(e.cells[j].text)
                  /\ e.cells[j].pad >= 0

\* Under a header of two values a row of one value and a row of three values
\* are printed, then the single line of a second context with a longer name.
C22_Witness ==
    /\ fmtpc = "done" /\ fmtFormat = "default"
    /\ Len(TableLines) = 4
    /\ Len(TableLines[1].cells) = 2 /\ TableLines[1].kind = "header"
    /\ Len(TableLines[2].cells) = 1
    /\ Len(TableLines[3].cells) = 3
    /\ TableLines[3].cells[1].width > Len(TableLines[1].cells[1].text)
    /\ TableLines[4].label = ColorizeContext(isTerminal, contexts[2])
    /\ TableLines[3].pad > 0
    /\ Len(fmtResults[2].output) = 1

\* ------------------------------------------------------------------ claim C23
\* C23: with a batch size of 0 no worker of runCommand ever holds an admission
\* slot, no kubectl process is started, and runCommand never gets past
\* wg.Wait(): the aggregator is not called and runCommand does not return.
C23_ZeroBatchNeverRuns ==
    batchSize = 0 /\ mainpc # "off" =>
        /\ Holders = {}
        /\ semaphore = 0
        /\ \A w \in Workers : proc[w] = None /\ wpc[w] \in {"unborn", "acquire"}
        /\ \A c \in DOMAIN invocations : invocations[c] = 0
        /\ started = 0 /\ completed = 0
        /\ mainpc \in {"launch", "wait"}
        /\ aggregated = <<>>

\* Every worker of a run over several contexts is blocked in its send on the
\* semaphore while the main goroutine is in wg.Wait().
C23_Witness ==
    /\ batchSize = 0 /\ mainpc = "wait"
    /\ Len(contexts) = MaxContexts
    /\ wg = Len(contexts)
    /\ \A w \in Workers : wpc[w] = "acquire"

\* ------------------------------------------------------------------ claim C30
\* What the progress bar writes to os.Stderr.
ProgressWrites == {"frame", "clear"}

\* progressBar.finish has returned: the main goroutine is past exec.go:177.
FinishReturned == showStatus /\ mainpc \in {"format", "done"}

\* The progress bar is silent from the return of finish on: the goroutine
\* animate has ended, and no write of it follows the aggregator's run.
QuietAfterFinish ==
    /\ FinishReturned => animatepc = "exited"
    /\ \A a, b \in 1..Len(progressErr) :
          a < b /\ progressErr[a] = "formatOutput" => progressErr[b] \notin ProgressWrites

\* finish is called after every worker has completed and before the
\* aggregator runs.
FinishInPlace ==
    mainpc \in {"finish", "finishWait"} =>
        /\ \A w \in Workers : wpc[w] = "done"
        /\ aggregated = <<>>
        /\ \A a \in 1..Len(progressErr) : progressErr[a] # "formatOutput"

\* C30: the progress indicator writes nothing to stderr after
\* progressBar.finish has returned; finish is called only after all workers
\* have completed and before the aggregator runs, so no frame is written
\* between or after the aggregator's output; and a call of finish returns.
C30_ProgressQuietAfterFinish ==
    /\ [](QuietAfterFinish /\ FinishInPlace)
    /\ (mainpc = "finish") ~> (mainpc = "format")

\* Two frames were drawn, the bar was erased and the aggregator ran.
C30_Witness ==
    /\ showStatus /\ mainpc = "done" /\ Len(contexts) = 2
    /\ progressErr = <<"frame", "frame", "clear", "formatOutput">>

\* ------------------------------------------------------------------ claim C24
\* C24: when runStreamingCommand has returned, every streaming worker it
\* started has finished: the WaitGroup counter is zero and no worker holds a
\* line it has scanned and not written.
C24_WorkersFinishedAtReturn ==
    spc = "returned" =>
        /\ swg = 0
        /\ \A w \in StreamWorkers : tpc[w] \in {"unborn", "done"}

\* ------------------------------------------------------------------ claim C25
\* runStreamingCommand called with filterHeaders = true, stdout not a terminal.
InitStreamFilter == InitStream /\ filterHeaders /\ ~isTerminal

\* The scheduling of SpecStreamFair for these runs.
SpecStreamFilterFair ==
    /\ InitStreamFilter /\ [][NextStream]_vars
    /\ WF_vars(MainStream)
    /\ WF_vars(CloseDone)
    /\ \A c \in 1..MaxStreamContexts :
          /\ WF_vars(<<c, "out">> \in StreamWorkers /\ StreamWorker(<<c, "out">>))
          /\ WF_vars(<<c, "err">> \in StreamWorkers /\ StreamWorker(<<c, "err">>))

\* With header filtering, the first line of stdout is the unified header.
HeaderLeads ==
    filterHeaders =>
        \A k \in 1..Len(stdout) : stdout[k].kind = "line" => stdout[1].kind = "header"

\* Worker w waits at the once-gate or at the mutex.
Waiting(w) == w \in StreamWorkers /\ tpc[w] \in {"once", "hlock", "lock"}

\* C25: with header filtering the unified header is on stdout before every
\* labelled data line in every interleaving, and no worker waits for ever at
\* the once-gate or at the mutex.
C25_HeaderFirstNoWorkerStuck ==
    /\ []HeaderLeads
    /\ \A c \in 1..MaxStreamContexts : \A s \in Streams :
          []<>(~Waiting(<<c, s>>))

\* The first line of the second context lost the race: its worker waits at
\* the once-gate while the first context's worker is writing the header.
C25_Witness ==
    /\ filterHeaders /\ Len(contexts) = 2
    /\ headerOnce = "running"
    /\ tpc[<<1, "out">>] = "hwrite"
    /\ tpc[<<2, "out">>] = "once"

\* ------------------------------------------------------------------ getContexts
\* Number of distinct context names a kubeconfig is drawn from.
MaxNames == 2
\* Largest number of entries of the contexts list of a kubeconfig.
MaxEntries == 3
\* Largest number of --filter patterns, and of --exclude patterns.
MaxPatterns == 2

SelNames(n) == {CtxName(i) : i \in 1..n}

SeqsUpTo(S, n) == UNION {[1..k -> S] : k \in 0..n}

\* A pattern is what regexp.Compile and MatchString make of it: whether
\* "(?i)" + pattern compiles, and the names the compiled expression matches.
PatternsOver(names) ==
    {[valid |-> FALSE, matches |-> {}]}
        \cup {[valid |-> TRUE, matches |-> m] : m \in SUBSET names}

\* The orders in which ranging over a map with the keys S can visit them.
MapOrders(S) ==
    {p \in [1..Cardinality(S) -> S] : \A i, j \in 1..Cardinality(S) : p[i] = p[j] => i = j}

\* What clientcmd.LoadFromFile can give for a file whose contexts list, read as
\* []ContextEntry, has no named entry.
ClientcmdLoads(names) ==
    {[err |-> TRUE, names |-> {}]} \cup {[err |-> FALSE, names |-> m] : m \in SUBSET names}

\* entry.Name != ""
NonEmptyName(name) == name # ""

\* The loop of contexts.go:37-42.
NamedEntries(entries) == SelectSeq(entries, NonEmptyName)

\* The kubeconfig files: no path, an unreadable file, a file that is not YAML,
\* or a file with a contexts list of at most n entries, named or not.
Kubeconfigs(names, n) ==
    {[NoKubeconfig EXCEPT !.path = FALSE], [NoKubeconfig EXCEPT !.readable = FALSE],
     [NoKubeconfig EXCEPT !.parses = FALSE]}
        \cup UNION {{[NoKubeconfig EXCEPT !.entries = e, !.clientcmd = cc] :
                        cc \in IF NamedEntries(e) = <<>> THEN ClientcmdLoads(names)
                               ELSE {NoKubeconfig.clientcmd}} :
                    e \in SeqsUpTo(names \cup {""}, n)}

\* getKubeconfigPath() != "": $KUBECONFIG is set or the home directory is known.
GetKubeconfigPath(kc) == kc.path

Failed(msg) == [contexts |-> <<>>, err |-> msg]
Returned(list) == [contexts |-> list, err |-> Nil]

\* regex.MatchString(ctx)
MatchString(regex, ctx) == ctx \in regex.matches

\* Whether every pattern compiles.
Compiles(patterns) == \A i \in 1..Len(patterns) : patterns[i].valid

RECURSIVE FilterOne_NoBreak(_, _)
\* A variant of the inner loop without the break.
FilterOne_NoBreak(ctx, regexes) ==
    IF regexes = <<>> THEN <<>>
    ELSE (IF MatchString(Head(regexes), ctx) THEN <<ctx>> ELSE <<>>)
            \o FilterOne_NoBreak(ctx, Tail(regexes))

RECURSIVE FilterOne(_, _)
\* The inner loop of filterContexts: ctx is appended at its first match, and
\* the break leaves the loop.
FilterOne(ctx, regexes) ==
    IF regexes = <<>> THEN <<>>
    ELSE IF MatchString(Head(regexes), ctx) THEN <<ctx>>
    ELSE FilterOne(ctx, Tail(regexes))

RECURSIVE FilterLoop(_, _)
FilterLoop(cs, regexes) ==
    IF cs = <<>> THEN <<>>
    ELSE FilterOne(Head(cs), regexes) \o FilterLoop(Tail(cs), regexes)

FilterContexts(cs, patterns) ==
    IF Len(patterns) = 0 THEN Returned(cs)
    ELSE IF ~Compiles(patterns) THEN Failed("invalid regex pattern")
    ELSE Returned(FilterLoop(cs, patterns))

RECURSIVE Excluded(_, _)
\* The inner loop of excludeContexts: the flag excluded.
Excluded(ctx, regexes) ==
    IF regexes = <<>> THEN FALSE
    ELSE IF MatchString(Head(regexes), ctx) THEN TRUE
    ELSE Excluded(ctx, Tail(regexes))

RECURSIVE ExcludeLoop(_, _)
ExcludeLoop(cs, regexes) ==
    IF cs = <<>> THEN <<>>
    ELSE (IF Excluded(Head(cs), regexes) THEN <<>> ELSE <<Head(cs)>>)
            \o ExcludeLoop(Tail(cs), regexes)

\* A variant that lets every context through when a pattern does not compile.
ExcludeContexts_KeepOnInvalid(cs, patterns) ==
    IF Len(patterns) = 0 \/ ~Compiles(patterns) THEN Returned(cs)
    ELSE Returned(ExcludeLoop(cs, patterns))

ExcludeContexts(cs, patterns) ==
    IF Len(patterns) = 0 THEN Returned(cs)
    ELSE IF ~Compiles(patterns) THEN Failed("invalid regex pattern")
    ELSE Returned(ExcludeLoop(cs, patterns))

\* contexts.go:22-58: the names of the kubeconfig, in the order of the file, or
\* in the order the map of clientcmd is ranged over when the file has no named
\* entry.
LoadContexts(kc) ==
    IF ~GetKubeconfigPath(kc) THEN {Failed("could not determine kubeconfig path")}
    ELSE IF ~kc.readable THEN {Failed("failed to read kubeconfig")}
    ELSE IF ~kc.parses THEN {Failed("failed to parse kubeconfig")}
    ELSE IF Len(NamedEntries(kc.entries)) > 0 THEN {Returned(NamedEntries(kc.entries))}
    ELSE IF kc.clientcmd.err THEN {Failed("failed to load kubeconfig")}
    ELSE IF kc.clientcmd.names = {} THEN {Failed("no contexts found in kubeconfig")}
    ELSE {Returned(p) : p \in MapOrders(kc.clientcmd.names)}

\* contexts.go:60-69
ApplyFilter(cs, patterns) ==
    IF Len(patterns) > 0
    THEN LET f == FilterContexts(cs, patterns) IN
         IF f.err # Nil THEN Failed("invalid filter pattern")
         ELSE IF Len(f.contexts) = 0 THEN Failed("no contexts match filter patterns")
         ELSE f
    ELSE Returned(cs)

\* contexts.go:71-80
ApplyExclude(cs, patterns) ==
    IF Len(patterns) > 0
    THEN LET x == ExcludeContexts(cs, patterns) IN
         IF x.err # Nil THEN Failed("invalid exclude pattern")
         ELSE IF Len(x.contexts) = 0 THEN Failed("all contexts excluded by patterns")
         ELSE x
    ELSE Returned(cs)

\* contexts.go:60-82
SelectContexts(cs, fps, eps) ==
    LET f == ApplyFilter(cs, fps) IN
    IF f.err # Nil THEN f ELSE ApplyExclude(f.contexts, eps)

\* What getContexts() can return, with the list it read from the kubeconfig.
GetContextsReturns(kc, fps, eps) ==
    {[loaded |-> l.contexts,
      ret |-> IF l.err # Nil THEN l ELSE SelectContexts(l.contexts, fps, eps)] :
        l \in LoadContexts(kc)}

\* getContexts() returns r.
GetContextsReturn(r) ==
    /\ selpc = "ready"
    /\ selpc' = "done"
    /\ kubeContexts' = r.loaded
    /\ selErr' = r.ret.err
    /\ UNCHANGED <<kubeconfig, filterPatterns, excludePatterns>>

InitSelect ==
    /\ kubeconfig \in Kubeconfigs(SelNames(MaxNames), MaxEntries)
    /\ filterPatterns \in SeqsUpTo(PatternsOver(SelNames(MaxNames)), MaxPatterns)
    /\ excludePatterns \in SeqsUpTo(PatternsOver(SelNames(MaxNames)), MaxPatterns)
    /\ selpc = "ready"
    /\ kubeContexts = <<>>
    /\ selErr = Nil
    /\ contexts = <<>>
    /\ isTerminal = FALSE
    /\ BatchIdle
    /\ StreamIdle
    /\ FormatIdle

GetContexts ==
    /\ \E r \in GetContextsReturns(kubeconfig, filterPatterns, excludePatterns) :
          /\ GetContextsReturn(r)
          /\ contexts' = r.ret.contexts
    /\ UNCHANGED <<batchVars, streamVars, fmtVars>>

NextSelect == GetContexts

SpecSelect == InitSelect /\ [][NextSelect]_vars

\* ------------------------------------------- claims on the writes of a streaming run
\* A step writes to os.Stdout or os.Stderr.
WritesOutput == stdout' # stdout \/ stderr' # stderr

\* A streaming worker was started and has not returned.
WorkerRuns == \E w \in StreamWorkers : tpc[w] \notin {"unborn", "done"}

\* The step is the fmt.Fprintf of the worker that holds mu.
ByMutexHolder ==
    /\ mu # <<>>
    /\ tpc[mu] \in {"write", "hwrite"}
    /\ tpc'[mu] \in {"unlock", "hunlock"}

\* C20: in a streaming run every write to stdout or stderr made while a worker
\* runs is made by the holder of the shared mutex, the diagnostics of the
\* launch loop included.
C20_EveryWriteUnderMutex == [][WritesOutput /\ WorkerRuns => ByMutexHolder]_vars

\* ---------------------------------------------------------- formatVersionOutput
\* A line of kubectl's output: the prefix strings.HasPrefix looks for ("" when
\* the line has none of them) and the rest with the blanks trimmed.
VersionLine(prefix, value) == [prefix |-> prefix, value |-> value]
ClientLine(v) == VersionLine("Client Version:", v)
KustomizeLine(v) == VersionLine("Kustomize Version:", v)
ServerLine(v) == VersionLine("Server Version:", v)
BlankLine == VersionLine("", "")

\* The outputs of "kubectl version" drawn: nothing, blank space, a client and
\* a server version, all three versions, no server version, two server
\* lines, and a diagnostic.
VersionOutputs ==
    {<<>>,
     <<BlankLine>>,
     <<ClientLine("v1.34.3"), ServerLine("v1.34.0")>>,
     <<ClientLine("v1.34.3"), KustomizeLine("v5.7.1"), BlankLine, ServerLine("v1.35.0")>>,
     <<ClientLine("v1.34.3")>>,
     <<ServerLine("v1.35.0"), ServerLine("v1.34.0")>>,
     <<VersionLine("", "error message")>>}

\* strings.TrimSpace(result.output) == ""
BlankOutput(output) == \A i \in 1..Len(output) : output[i] = BlankLine

RECURSIVE FirstVersion(_, _, _)
\* The loop over the lines of output.go:325-335 for one of the two prefixes:
\* the variable is set by the first line with the prefix while it is "".
FirstVersion(lines, prefix, current) ==
    IF lines = <<>> THEN current
    ELSE FirstVersion(Tail(lines), prefix,
                      IF current = "" /\ Head(lines).prefix = prefix
                      THEN Head(lines).value ELSE current)

RECURSIVE FirstPass(_, _, _)
\* First pass (output.go:313-340): errored and blank results are skipped; the
\* loop ends once both versions are known.
FirstPass(rs, prefix, current) ==
    IF rs = <<>> THEN current
    ELSE IF Head(rs).err # Nil \/ BlankOutput(Head(rs).output)
         THEN FirstPass(Tail(rs), prefix, current)
         ELSE FirstPass(Tail(rs), prefix, FirstVersion(Head(rs).output, prefix, current))

RECURSIVE FirstServerLine(_)
\* The loop of output.go:366-373: the value of the first "Server Version:"
\* line, then break.
FirstServerLine(lines) ==
    IF lines = <<>> THEN ""
    ELSE IF Head(lines).prefix = "Server Version:" THEN Head(lines).value
    ELSE FirstServerLine(Tail(lines))

\* The serverVersion the second pass stores for one result.
ServerVersion(result) ==
    IF result.err # Nil THEN "ERROR"
    ELSE IF BlankOutput(result.output) THEN "N/A"
    ELSE IF FirstServerLine(result.output) = "" THEN "N/A"
    ELSE FirstServerLine(result.output)

RECURSIVE VersionData(_, _)
\* The map versionData after the second pass has handled the first k results:
\* it is keyed by context name, so a later result of the same name replaces
\* the entry of an earlier one.
VersionData(rs, k) ==
    IF k = 0 THEN <<>>
    ELSE (rs[k].context :> ServerVersion(rs[k])) @@ VersionData(rs, k - 1)

VersionEvent(kind, stream, label, pad, cells, text) ==
    [kind |-> kind, stream |-> stream, label |-> label, pad |-> pad, cells |-> cells,
     text |-> text]

RECURSIVE SecondPassWrites(_)
\* The writes to stderr of the second pass (output.go:348-351); the context is
\* written as it is, without colour.
SecondPassWrites(rs) ==
    IF rs = <<>> THEN <<>>
    ELSE (IF Head(rs).err = Nil THEN <<>>
          ELSE <<VersionEvent("error", "stderr", Head(rs).context, 0, <<>>, Head(rs).err)>>
                   \o (IF Head(rs).output # <<>>
                       THEN <<VersionEvent("errMsg", "stderr", Head(rs).context, 0, <<>>,
                                           Head(rs).output)>>
                       ELSE <<>>))
         \o SecondPassWrites(Tail(rs))

\* output.go:385-393
VersionPreamble(clientVersion, kustomizeVersion) ==
    (IF clientVersion # ""
     THEN <<VersionEvent("client", "stdout", "Client Version:", 0, <<clientVersion>>, <<>>)>>
     ELSE <<>>)
    \o (IF kustomizeVersion # ""
        THEN <<VersionEvent("kustomize", "stdout", "Kustomize Version:", 0,
                            <<kustomizeVersion>>, <<>>)>>
        ELSE <<>>)
    \o (IF clientVersion # "" \/ kustomizeVersion # ""
        THEN <<VersionEvent("blank", "stdout", "", 0, <<>>, <<>>)>>
        ELSE <<>>)

\* The width of the context column: "%-30s".
VersionContextWidth == 30
\* The length of the rule under the header.
VersionRuleLength == 50

\* output.go:396-397
VersionHeader ==
    <<VersionEvent("header", "stdout", "CONTEXT", VersionContextWidth - Len("CONTEXT"),
                   <<"SERVER VERSION">>, <<>>),
      VersionEvent("rule", "stdout", "", VersionRuleLength, <<>>, <<>>)>>

\* output.go:400-410: one row per result, the cell looked up by context name.
VersionRows(tty, rs) ==
    [i \in 1..Len(rs) |->
        VersionEvent("row", "stdout", ColorizeContext(tty, rs[i].context),
                     IF Len(rs[i].context) < VersionContextWidth
                     THEN VersionContextWidth - Len(rs[i].context) ELSE 0,
                     <<VersionData(rs, Len(rs))[rs[i].context]>>, <<>>)]

\* The writes of formatVersionOutput(results) in program order.
FormatVersionOutputWrites(tty, rs) ==
    SecondPassWrites(rs)
        \o VersionPreamble(FirstPass(rs, "Client Version:", ""),
                           FirstPass(rs, "Kustomize Version:", ""))
        \o VersionHeader
        \o VersionRows(tty, rs)

\* The results handed over: the context names are those of the kubeconfig, and
\* a kubeconfig can name a context more than once.
InitVersion ==
    /\ fmtSubcommand = "version"
    /\ \E n \in 0..MaxFmtResults :
          /\ contexts \in [1..n -> SelNames(MaxNames)]
          /\ fmtResults \in [1..n -> [context : SelNames(MaxNames),
                                      output : VersionOutputs, err : FmtErrs]]
          /\ \A i \in 1..n : fmtResults[i].context = contexts[i]
    /\ isTerminal \in BOOLEAN
    /\ BatchIdle
    /\ StreamIdle
    /\ SelectIdle
    /\ fmtpc = "ready"
    /\ fmtOut = <<>>
    /\ fmtFormat = "default"
    /\ fmtErr = Nil

\* formatVersionOutput(results).
FormatVersionOutput ==
    /\ fmtpc = "ready"
    /\ fmtOut' = FormatVersionOutputWrites(isTerminal, fmtResults)
    /\ fmtpc' = "done"
    /\ fmtErr' = ReturnOf(fmtResults, Nil)
    /\ UNCHANGED <<contexts, batchVars, streamVars, selVars, fmtResults, fmtFormat, fmtSubcommand>>

NextVersion == FormatVersionOutput

SpecVersion == InitVersion /\ [][NextVersion]_vars

\* -------------------------------------------------- claims on formatVersionOutput
\* The positions in fmtOut of the rows of the table.
VersionRowsAt == {k \in 1..Len(fmtOut) : fmtOut[k].kind = "row"}

\* The position of the k-th row.
NthRow(k) == CHOOSE p \in VersionRowsAt : Cardinality({q \in VersionRowsAt : q <= p}) = k

\* The server-version cell result i is due: ERROR when it failed, the value of
\* its first "Server Version:" line, N/A when it has none.
CellDue(i) ==
    LET at == {k \in 1..Len(fmtResults[i].output) :
                   fmtResults[i].output[k].prefix = "Server Version:"} IN
    IF fmtResults[i].err # Nil THEN "ERROR"
    ELSE IF at = {} THEN "N/A"
    ELSE fmtResults[i].output[SetMin(at)].value

\* C19: formatVersionOutput prints one row per result in input order; the
\* row of a result shows its context and ERROR, the value of its first
\* "Server Version:" line, or N/A; and the diagnostic of every failed context
\* is written before the header of the table.
C19_OneRowPerResult ==
    fmtpc = "done" =>
        /\ Cardinality(VersionRowsAt) = Len(fmtResults)
        /\ \A i \in 1..Len(fmtResults) :
              /\ fmtOut[NthRow(i)].label = ColorizeContext(isTerminal, fmtResults[i].context)
              /\ fmtOut[NthRow(i)].cells = <<CellDue(i)>>
              /\ fmtResults[i].err # Nil =>
                    \E e \in 1..Len(fmtOut) :
                       /\ fmtOut[e].kind = "error" /\ fmtOut[e].label = fmtResults[i].context
                       /\ \A h \in 1..Len(fmtOut) : fmtOut[h].kind = "header" => e < h
        /\ \A e, h \in 1..Len(fmtOut) :
              fmtOut[e].stream = "stderr" /\ fmtOut[h].kind = "header" => e < h

\* --------------------------------------------- the value a command returns
\* A call of formatOutput for any format and subcommand, or a streaming run.
InitReturn == InitOutput \/ InitVersion \/ InitStreamFilter

\* formatOutput with the subcommand switch of its default case (output.go:126-130).
FormatOutputOf ==
    \/ fmtFormat \notin {"json", "yaml"} /\ fmtSubcommand = "version" /\ FormatVersionOutput
    \/ ~(fmtFormat \notin {"json", "yaml"} /\ fmtSubcommand = "version") /\ FormatOutput

NextReturn ==
    \/ fmtpc # "off" /\ FormatOutputOf
    \/ spc # "off" /\ NextStream

SpecReturn == InitReturn /\ [][NextReturn]_vars

\* ------------------------------------------------------------------ claim C26
\* C26: the value a command returns does not depend on what happened in the
\* contexts: whenever formatOutput returns for a non-empty results slice
\* (table, version, JSON or YAML) it returns nil, also when every result
\* carries an error, and runStreamingCommand returns nil, also when no child
\* process could be started.
C26_ReturnsNilWhateverTheOutcomes ==
    /\ fmtpc = "done" /\ Len(fmtResults) > 0 => fmtErr = Nil
    /\ spc = "returned" => fmtErr = Nil

\* Both kubectl invocations of a YAML run failed and the document was printed.
C26_Witness ==
    /\ fmtpc = "done" /\ fmtFormat = "yaml"
    /\ Len(fmtResults) = 2
    /\ \A i \in 1..Len(fmtResults) : fmtResults[i].err # Nil
    /\ fmtErr = Nil

\* A streaming run returned although no child process could be started.
C26_NoChildStarted ==
    /\ spc = "returned"
    /\ \A c \in 1..Len(contexts) : cproc[c] = "nil"

\* ------------------------------------ runCommand and runStreamingCommand, entry
\* Largest kubeconfig, and longest pattern list, of a run followed from the
\* first line of runCommand or runStreamingCommand.
MaxEntryContexts == 1

InitEntry ==
    /\ kubeconfig \in Kubeconfigs(SelNames(MaxEntryContexts), MaxEntryContexts)
    /\ filterPatterns \in SeqsUpTo(PatternsOver(SelNames(MaxEntryContexts)), MaxEntryContexts)
    /\ excludePatterns \in SeqsUpTo(PatternsOver(SelNames(MaxEntryContexts)), MaxEntryContexts)
    /\ selpc = "ready"
    /\ kubeContexts = <<>>
    /\ selErr = Nil
    /\ contexts = <<>>
    /\ isTerminal = FALSE
    /\ BatchIdle
    /\ StreamIdle
    /\ FormatIdle

\* exec.go:128-148: getContexts is called; its error, or an empty list, is
\* returned at once; otherwise the results slice, the WaitGroup and the
\* semaphore are made and the launch loop is entered.
RunCommand ==
    /\ mainpc = "off" /\ spc = "off"
    /\ \E r \in GetContextsReturns(kubeconfig, filterPatterns, excludePatterns) :
          /\ GetContextsReturn(r)
          /\ contexts' = r.ret.contexts
          /\ IF r.ret.err # Nil \/ Len(r.ret.contexts) = 0
             THEN /\ mainpc' = "failed"
                  /\ UNCHANGED <<batchSize, showStatus, launched, wpc, windex, wcontext,
                                 semaphore, wg, ret, results, slotWriters, invocations,
                                 proc, procOut, firstRecorded, started, completed,
                                 aggregated, progVars>>
             ELSE LET W == 1..Len(r.ret.contexts) IN
                  /\ mainpc' = "launch"
                  /\ batchSize' \in 0..MaxBatchSize
                  /\ showStatus' \in BOOLEAN
                  /\ launched' = 0
                  /\ wpc' = [w \in W |-> "unborn"]
                  /\ windex' = [w \in W |-> 0]
                  /\ wcontext' = [w \in W |-> ""]
                  /\ semaphore' = 0
                  /\ wg' = 0
                  /\ ret' = [w \in W |-> [output |-> "", err |-> Nil]]
                  /\ results' = [i \in W |-> ZeroResult]
                  /\ slotWriters' = [i \in W |-> <<>>]
                  /\ invocations' = [c \in {r.ret.contexts[i] : i \in W} |-> 0]
                  /\ proc' = [w \in W |-> None]
                  /\ procOut' = [w \in W |-> ""]
                  /\ firstRecorded' = 0
                  /\ started' = 0
                  /\ completed' = 0
                  /\ aggregated' = <<>>
                  /\ animatepc' = AnimateStart(showStatus')
                  /\ UNCHANGED <<stopClosed, animateDone, progressErr>>
    /\ UNCHANGED <<streamVars, fmtVars>>

\* exec.go:193-220: the same start, then sigChan, mu, wg, cmds and headerOnce
\* are made and the launch loop is entered.
RunStreamingCommand ==
    /\ mainpc = "off" /\ spc = "off"
    /\ \E r \in GetContextsReturns(kubeconfig, filterPatterns, excludePatterns) :
          /\ GetContextsReturn(r)
          /\ contexts' = r.ret.contexts
          /\ IF r.ret.err # Nil \/ Len(r.ret.contexts) = 0
             THEN /\ spc' = "failed"
                  /\ UNCHANGED <<filterHeaders, isTerminal, sidx, cproc, signalled, swg,
                                 doneClosed, sigChan, mu, headerOnce, tpc, scanned,
                                 stdout, stderr>>
             ELSE LET C == 1..Len(r.ret.contexts) IN
                  /\ spc' = "launch"
                  /\ filterHeaders' \in BOOLEAN
                  /\ isTerminal' \in BOOLEAN
                  /\ sidx' = 0
                  /\ cproc' = [c \in C |-> "uncreated"]
                  /\ signalled' = [c \in C |-> <<>>]
                  /\ swg' = 0
                  /\ doneClosed' = FALSE
                  /\ sigChan' = 0
                  /\ mu' = <<>>
                  /\ headerOnce' = "fresh"
                  /\ tpc' = [w \in C \X Streams |-> "unborn"]
                  /\ scanned' = [w \in C \X Streams |-> 0]
                  /\ stdout' = <<>>
                  /\ stderr' = <<>>
    /\ UNCHANGED <<batchVars, fmtVars>>

\* The steps of the command that was called.
NextEntry ==
    \/ RunCommand
    \/ RunStreamingCommand
    \/ mainpc # "off" /\ NextBatch
    \/ spc # "off" /\ NextStream

SpecEntry == InitEntry /\ [][NextEntry]_vars

\* ------------------------------------------------ claims on the context source
\* Whether a context name is selected by the patterns: it matches at least one
\* include pattern (or there is none) and no exclude pattern.
Wanted(c) ==
    /\ \/ filterPatterns = <<>>
       \/ \E i \in 1..Len(filterPatterns) : c \in filterPatterns[i].matches
    /\ ~\E j \in 1..Len(excludePatterns) : c \in excludePatterns[j].matches

\* The names the kubeconfig offers.
Offered ==
    IF NamedEntries(kubeconfig.entries) # <<>>
    THEN {kubeconfig.entries[i] : i \in 1..Len(kubeconfig.entries)} \ {""}
    ELSE IF kubeconfig.clientcmd.err THEN {} ELSE kubeconfig.clientcmd.names

\* The context source fails or yields no context: no kubeconfig can be read,
\* it has no context, a pattern is invalid, or the patterns leave no context.
SourceFails ==
    \/ ~kubeconfig.path \/ ~kubeconfig.readable \/ ~kubeconfig.parses
    \/ Offered = {}
    \/ \E i \in 1..Len(filterPatterns) : ~filterPatterns[i].valid
    \/ \E i \in 1..Len(excludePatterns) : ~excludePatterns[i].valid
    \/ \A c \in Offered : ~Wanted(c)

\* No worker goroutine exists, no kubectl process was made or started, and
\* nothing was written.
NothingDispatched ==
    /\ launched = 0 /\ wg = 0 /\ wpc = <<>> /\ proc = <<>> /\ invocations = <<>>
    /\ sidx = 0 /\ swg = 0 /\ cproc = <<>> /\ tpc = <<>>
    /\ stdout = <<>> /\ stderr = <<>>

\* C17: once getContexts has returned for a context source that fails or
\* yields no context, runCommand or runStreamingCommand has returned an error,
\* and no worker is ever launched and no child process ever made.
C17_NoSourceNoDispatch ==
    selpc = "done" /\ (SourceFails \/ selErr # Nil \/ contexts = <<>>) =>
        /\ mainpc = "failed" \/ spc = "failed"
        /\ selErr # Nil
        /\ NothingDispatched

\* runStreamingCommand returned the error of an exclude pattern that removed
\* the only context of the kubeconfig.
C17_Witness ==
    /\ selpc = "done" /\ spc = "failed"
    /\ kubeContexts = <<CtxName(1)>>
    /\ Len(excludePatterns) = 1 /\ excludePatterns[1].matches = {CtxName(1)}
    /\ selErr = "all contexts excluded by patterns"
    /\ NothingDispatched

\* -------------------------------------------------------- claims on getContexts
\* Number of occurrences of c in the list.
Occurrences(list, c) == Cardinality({i \in 1..Len(list) : list[i] = c})

\* C18: the list getContexts returns is the list of the kubeconfig with the
\* contexts that match no include pattern (when there is one) or some exclude
\* pattern struck out: the order is kept, no context occurs more often than in
\* the kubeconfig, and none is added.
C18_SelectionIsOrderedSublist ==
    selpc = "done" /\ selErr = Nil =>
        /\ contexts = SelectSeq(kubeContexts, Wanted)
        /\ \A c \in SelNames(MaxNames) \cup {""} :
              Occurrences(contexts, c) <= Occurrences(kubeContexts, c)
        /\ \A i \in 1..Len(contexts) : \E k \in 1..Len(kubeContexts) : kubeContexts[k] = contexts[i]

\* A kubeconfig that names a context twice, two include patterns that both
\* match it, and an exclude pattern that removes another context.
C18_Witness ==
    /\ selpc = "done" /\ selErr = Nil
    /\ kubeContexts = <<CtxName(1), CtxName(2), CtxName(1)>>
    /\ Len(filterPatterns) = 2
    /\ \A i \in 1..2 : CtxName(1) \in filterPatterns[i].matches
    /\ CtxName(2) \in filterPatterns[1].matches
    /\ Len(excludePatterns) = 1 /\ excludePatterns[1].matches = {CtxName(2)}
    /\ contexts = <<CtxName(1), CtxName(1)>>

====
